---- MODULE Spec2Model ----
(***************************************************************************)
(* Model of the PDF cleaning tool: the table-protecting image classifier   *)
(* (services/image_classifier.py), the multi-algorithm header/footer       *)
(* detector (services/header_footer_detector.py) and the per-document      *)
(* pipeline that drives them (scripts/clean_pdfs.py).                      *)
(*                                                                         *)
(* Fractions of a page (area_percentage, area_threshold) and fractions of  *)
(* the sample (detection_threshold) are kept as whole percents, so that    *)
(* `a / b >= t` of the code is `a * 100 >= t * b` here.                    *)
(***************************************************************************)
EXTENDS Integers, Sequences, FiniteSets, TLC

VARIABLES
    pc,                   \* position of the run
    report,               \* report['steps']: the status of every step
    area_threshold,       \* ImageClassifier.area_threshold, in percent
    min_lines_for_table,  \* ImageClassifier.min_lines_for_table
    keep_tables,          \* ImageClassifier.keep_tables
    remove_decorative,    \* ImageClassifier.remove_decorative
    images,               \* the image instances of the PDF, in page order
    img_results,          \* what analyze_images returned to the pipeline
    overlaid,             \* the records whose rect was covered by draw_rect
    removed_count,        \* what remove_decorative_images returned
    threshold,            \* HeaderFooterDetector.threshold, in percent
    sample_pages,         \* HeaderFooterDetector.sample_pages
    algorithms,           \* HeaderFooterDetector.algorithms, an ordered list
    document,             \* the text blocks of every page of the PDF
    raising,              \* the detection algorithms that throw on this PDF
    hf_results,           \* what detect() returned to the pipeline
    args_preview,         \* the --preview flag of the command line
    config_preview_only,  \* config['preview']['preview_only']
    preview_only,         \* the preview_only argument of process_pdf_file
    generate_chunk_simulation, \* config['output']['generate_chunk_simulation']
    redacted,             \* the <<page, block>> places covered by draw_rect
    text_result,          \* the text that step 6 extracted and saved
    temp_cleaned,         \* the file <base>_temp_cleaned.pdf
    cleaned,              \* the file versions['cleaned']
    hf_removed_count,     \* what remove_headers_footers returned
    cleaning_counts,      \* the counts in report['steps']['final_cleaning']
    rerun_results,        \* what a second analyze_images on the same PDF returned
    pdf_files,            \* main: the list of files to process
    file_index,           \* main: the place in pdf_files of the file in work
    all_reports,          \* main: the reports process_pdf_file has returned
    combined_report,      \* what main wrote to cleaning_report.json
    batch_log,            \* the positions the files went through, in time order
    ocr_input,            \* OCRProcessor: the pages of the input PDF
    chunk_size,           \* OCRProcessor.chunk_size
    chunks,               \* the chunk_<i>_input.pdf files _split_pdf wrote
    chunk_files,          \* the files _process_chunked_pdf is going to merge
    ocr_output,           \* the pages of the output PDF, <<>> while there is none
    call,                 \* a function of the services and the arguments it is called with
    returned              \* what the call returned or raised, NotReturned before

imgConfig == <<area_threshold, min_lines_for_table, keep_tables, remove_decorative>>
imgState == <<images, img_results, overlaid, removed_count>>
hfConfig == <<threshold, sample_pages, algorithms>>
hfState == <<document, raising, hf_results>>

runConfig == <<args_preview, config_preview_only, preview_only,
              generate_chunk_simulation>>
runState == <<redacted, text_result, temp_cleaned, cleaned, hf_removed_count,
              cleaning_counts>>

\* What lies beside one run of process_pdf_file
batchState == <<pdf_files, file_index, all_reports, combined_report, batch_log>>
ocrState == <<ocr_input, chunk_size, chunks, chunk_files, ocr_output>>
callState == <<call, returned>>
aside == <<rerun_results, batchState, ocrState, callState>>

vars == <<pc, report, imgConfig, imgState, hfConfig, hfState, runConfig, runState,
          aside>>

\* ---------------------------------------------------------------- bounds
MaxImages == 2
MaxPages == 2
MaxDocBlocks == 3
MaxFiles == 2
MaxOcrPages == 4

\* ------------------------------------------------------------- utilities
\* report['steps'] before any step has run
Steps == {"ocr", "header_footer_detection", "image_analysis", "preview",
          "final_cleaning", "text_extraction"}
NoReport == [st \in Steps |-> "none"]

\* A path with no file at it, and the PDF at a path: the places of its
\* text covered by draw_rect and the image records covered by draw_rect
NoFile == [exists |-> FALSE]
Pdf(covered, covered_images) ==
    [exists |-> TRUE, covered |-> covered, overlaid |-> covered_images]

\* cleaning_report.json before main has written it
NoCombinedReport == [written |-> FALSE]

\* report['steps']['final_cleaning'] without its two counts
NoCounts == [headers_footers_removed |-> -1, images_removed |-> -1]

Range(s) == {s[i] : i \in 1..Len(s)}

SeqsUpTo(S, n) == UNION {[1..k -> S] : k \in 0..n}

\* ------------------------------------------------- image classifier inputs
\* area_percentage of an image, in percent of the page
Areas == {3, 7, 12, 25}

\* (line_count, len(text)) pairs of one OCR pass: no line means no text
OcrTexts == {<<0, 0>>, <<1, 5>>, <<1, 11>>, <<3, 11>>}

\* Where the analysis of one image can go wrong
\*   no_rects      : get_image_rects returned an empty list
\*   rects_error   : get_image_rects (or the area division) raised
\*   extract_error : doc.extract_image raised
\*   ocr_error     : Image.open / pytesseract raised inside _ocr_image
ImageOk ==
    [fail : {"none"}, area : Areas, ocr : OcrTexts, has_table_structure : BOOLEAN]

ImageOcrError ==
    [fail : {"ocr_error"}, area : Areas, ocr : {<<0, 0>>},
     has_table_structure : {FALSE}]

ImageEarlyError ==
    [fail : {"no_rects", "rects_error", "extract_error"}, area : {3},
     ocr : {<<0, 0>>}, has_table_structure : {FALSE}]

ImageInputs == ImageOk \cup ImageOcrError \cup ImageEarlyError

AnalysisFailures == {"rects_error", "extract_error", "ocr_error"}

\* ------------------------------------------------------- image classifier
\* What _ocr_image hands to _classify_image
OcrImage(img) ==
    IF img.fail = "ocr_error"
    THEN [text_len |-> 0, line_count |-> 0, has_table_structure |-> FALSE]
    ELSE [text_len |-> img.ocr[2], line_count |-> img.ocr[1],
          has_table_structure |-> img.has_table_structure]

\* The cascade without rule 1
ClassifyImageNoRule1(area_percentage, ocr_result, area_thr, min_lines) ==
    IF ocr_result.line_count >= min_lines THEN "table"
    ELSE IF ocr_result.line_count > 0 /\ ocr_result.text_len > 10 THEN "important"
    ELSE IF area_percentage > 20 THEN "important"
    ELSE IF area_percentage > 10 THEN "important"
    ELSE IF area_percentage < area_thr /\ ocr_result.line_count = 0 THEN "decorative"
    ELSE "important"

\* The cascade with rule 6 tried before rules 4 and 5
ClassifyImageRule6First(area_percentage, ocr_result, area_thr, min_lines) ==
    IF ocr_result.has_table_structure THEN "table"
    ELSE IF ocr_result.line_count >= min_lines THEN "table"
    ELSE IF ocr_result.line_count > 0 /\ ocr_result.text_len > 10 THEN "important"
    ELSE IF area_percentage < area_thr /\ ocr_result.line_count = 0 THEN "decorative"
    ELSE IF area_percentage > 20 THEN "important"
    ELSE IF area_percentage > 10 THEN "important"
    ELSE "important"

\* _classify_image
ClassifyImage(area_percentage, ocr_result, area_thr, min_lines) ==
    IF ocr_result.has_table_structure THEN "table"
    ELSE IF ocr_result.line_count >= min_lines THEN "table"
    ELSE IF ocr_result.line_count > 0 /\ ocr_result.text_len > 10 THEN "important"
    ELSE IF area_percentage > 20 THEN "important"
    ELSE IF area_percentage > 10 THEN "important"
    ELSE IF area_percentage < area_thr /\ ocr_result.line_count = 0 THEN "decorative"
    ELSE "important"

\* The page an image instance sits on: two image instances per page
ImagePage(i) == (i - 1) \div 2

EmptyResults ==
    [total_images |-> 0, decorative_images |-> <<>>,
     important_images |-> <<>>, table_images |-> <<>>]

\* A slip in the routing of analyze_images: the two elif branches swapped
AnalyzeOneSwapped(res, i, img, area_thr, min_lines) ==
    LET counted == [res EXCEPT !.total_images = @ + 1] IN
    IF img.fail = "no_rects" THEN counted
    ELSE IF img.fail \in {"rects_error", "extract_error"}
    THEN [counted EXCEPT !.important_images = Append(@,
             [page |-> ImagePage(i), xref |-> i, classification |-> "important",
              reason |-> "Error during analysis - kept for safety"])]
    ELSE
      LET ocr_result == OcrImage(img)
          classification ==
              ClassifyImage(img.area, ocr_result, area_thr, min_lines)
          image_info ==
              [page |-> ImagePage(i), xref |-> i, rect |-> i,
               area_percentage |-> img.area,
               ocr_lines |-> ocr_result.line_count,
               classification |-> classification]
      IN  IF classification = "table"
          THEN [counted EXCEPT !.table_images = Append(@, image_info),
                               !.important_images = Append(@, image_info)]
          ELSE IF classification = "decorative"
          THEN [counted EXCEPT !.important_images = Append(@, image_info)]
          ELSE [counted EXCEPT !.decorative_images = Append(@, image_info)]

\* One pass of the inner loop of analyze_images over image instance i
AnalyzeOne(res, i, img, area_thr, min_lines) ==
    LET counted == [res EXCEPT !.total_images = @ + 1] IN
    IF img.fail = "no_rects" THEN counted
    ELSE IF img.fail \in {"rects_error", "extract_error"}
    THEN [counted EXCEPT !.important_images = Append(@,
             [page |-> ImagePage(i), xref |-> i, classification |-> "important",
              reason |-> "Error during analysis - kept for safety"])]
    ELSE
      LET ocr_result == OcrImage(img)
          classification ==
              ClassifyImage(img.area, ocr_result, area_thr, min_lines)
          image_info ==
              [page |-> ImagePage(i), xref |-> i, rect |-> i,
               area_percentage |-> img.area,
               ocr_lines |-> ocr_result.line_count,
               classification |-> classification]
      IN  IF classification = "table"
          THEN [counted EXCEPT !.table_images = Append(@, image_info),
                               !.important_images = Append(@, image_info)]
          ELSE IF classification = "important"
          THEN [counted EXCEPT !.important_images = Append(@, image_info)]
          ELSE [counted EXCEPT !.decorative_images = Append(@, image_info)]


RECURSIVE AnalyzeFrom(_, _, _, _, _)
AnalyzeFrom(res, i, imgs, area_thr, min_lines) ==
    IF i > Len(imgs) THEN res
    ELSE AnalyzeFrom(AnalyzeOne(res, i, imgs[i], area_thr, min_lines),
                     i + 1, imgs, area_thr, min_lines)

AnalyzeImages(imgs, area_thr, min_lines) ==
    AnalyzeFrom(EmptyResults, 1, imgs, area_thr, min_lines)

\* What process_pdf_file puts in img_results when analyze_images raises
FailedImageResults ==
    [decorative_images |-> <<>>, table_images |-> <<>>, important_images |-> <<>>]

\* The records of s at the positions kept, in order
RECURSIVE SubSeqAt(_, _, _)
SubSeqAt(s, keep, i) ==
    IF i > Len(s) THEN <<>>
    ELSE IF i \in keep THEN <<s[i]>> \o SubSeqAt(s, keep, i + 1)
    ELSE SubSeqAt(s, keep, i + 1)

\* =================================================== header/footer detector
\* ------------------------------------------------------------------- texts
\* A text is a sequence of characters
Digits == {"0", "1", "2", "3", "4", "5", "6", "7", "8", "9"}
Whitespace == {" ", "\n", "\t"}

\* str.strip()
RECURSIVE LStrip(_)
LStrip(t) ==
    IF t # <<>> /\ Head(t) \in Whitespace THEN LStrip(Tail(t)) ELSE t

RECURSIVE RStrip(_)
RStrip(t) ==
    IF t # <<>> /\ t[Len(t)] \in Whitespace
    THEN RStrip(SubSeq(t, 1, Len(t) - 1)) ELSE t

Strip(t) == RStrip(LStrip(t))

\* re.sub(r'\d+', '#', text): every maximal run of digits becomes one '#'
RECURSIVE NormalizeDigits(_)
NormalizeDigits(t) ==
    IF t = <<>> THEN <<>>
    ELSE IF Head(t) \in Digits
    THEN IF Len(t) > 1 /\ t[2] \in Digits
         THEN NormalizeDigits(Tail(t))
         ELSE <<"#">> \o NormalizeDigits(Tail(t))
    ELSE <<Head(t)>> \o NormalizeDigits(Tail(t))

\* Length of the common prefix of a[i..ahi] and b[j..bhi]
RECURSIVE CommonPrefix(_, _, _, _, _, _)
CommonPrefix(a, b, i, j, ahi, bhi) ==
    IF i > ahi \/ j > bhi \/ a[i] # b[j] THEN 0
    ELSE 1 + CommonPrefix(a, b, i + 1, j + 1, ahi, bhi)

\* SequenceMatcher.find_longest_match on a[alo..ahi], b[blo..bhi]: the
\* longest matching block, the one starting earliest in a, then in b
FindLongestMatch(a, b, alo, ahi, blo, bhi) ==
    LET Cands == (alo..ahi) \X (blo..bhi)
        size == [c \in Cands |-> CommonPrefix(a, b, c[1], c[2], ahi, bhi)]
        longest == CHOOSE k \in {size[c] : c \in Cands} :
                       \A c \in Cands : size[c] <= k
        Longest == {c \in Cands : size[c] = longest}
        best == CHOOSE c \in Longest :
                    \A d \in Longest :
                        c[1] < d[1] \/ (c[1] = d[1] /\ c[2] <= d[2])
    IN  [i |-> best[1], j |-> best[2], size |-> longest]

\* Sum of the sizes of SequenceMatcher.get_matching_blocks
RECURSIVE MatchingSize(_, _, _, _, _, _)
\* The block m, and the blocks to its left and to its right
MatchingSizeAround(a, b, alo, ahi, blo, bhi, m) ==
    IF m.size = 0 THEN 0
    ELSE m.size
         + MatchingSize(a, b, alo, m.i - 1, blo, m.j - 1)
         + MatchingSize(a, b, m.i + m.size, ahi, m.j + m.size, bhi)

MatchingSize(a, b, alo, ahi, blo, bhi) ==
    IF alo > ahi \/ blo > bhi THEN 0
    ELSE MatchingSizeAround(a, b, alo, ahi, blo, bhi,
                            FindLongestMatch(a, b, alo, ahi, blo, bhi))

\* SequenceMatcher(None, a, b).ratio() >= percent / 100
SimilarAtLeast(a, b, percent) ==
    IF Len(a) + Len(b) = 0 THEN TRUE
    ELSE 200 * MatchingSize(a, b, 1, Len(a), 1, Len(b))
             >= percent * (Len(a) + Len(b))


\* ---------------------------------------------------------------- blocks
TextHead == <<"H", "e", "a", "d">>
TextPg1 == <<"P", "g", " ", "1", "\n">>
TextPg2 == <<"P", "g", " ", "2", "\n">>
TextRep == <<"R", "e", "p">>
TextBody == <<"B", "o", "d", "y", "\n">>

\* The blocks page.get_text("blocks") can hold: a running head and a
\* 3-letter text in the top 10% of the page, numbered page feet in the
\* bottom 10%, a paragraph in between
BlockKinds ==
    {[x0 |-> 0, y0 |-> 4, text |-> TextHead],
     [x0 |-> 0, y0 |-> 6, text |-> TextRep],
     [x0 |-> 0, y0 |-> 95, text |-> TextPg1],
     [x0 |-> 0, y0 |-> 95, text |-> TextPg2],
     [x0 |-> 0, y0 |-> 50, text |-> TextBody]}

\* ------------------------------------------------------ pages and sampling
\* page.rect.height of every page
PageHeight == 100

\* Python's round(v / 10) * 10 for a whole v: halves go to the even side
RoundToTolerance(v) ==
    LET q == v \div 10
        r == v % 10
    IN  IF r < 5 THEN q * 10
        ELSE IF r > 5 THEN (q + 1) * 10
        ELSE IF q % 2 = 0 THEN q * 10 ELSE (q + 1) * 10

Min(a, b) == IF a <= b THEN a ELSE b
Max(a, b) == IF a >= b THEN a ELSE b

\* The ascending sequence of the numbers of a finite set
RECURSIVE SortedSeq(_)
SortedSeq(S) ==
    IF S = {} THEN <<>>
    ELSE LET m == CHOOSE x \in S : \A y \in S : x <= y
         IN  <<m>> \o SortedSeq(S \ {m})

\* the sampling of detect() taken from the last page but one on
SamplePagesShifted(total_pages, k) ==
    LET pages_to_check == Min(k, total_pages)
        start_pages == 0..(Min(pages_to_check, total_pages) - 1)
        end_pages == Max(0, total_pages - pages_to_check - 1)..(total_pages - 2)
    IN  SortedSeq(start_pages \cup end_pages)

\* detect(), lines 49-52: 0-based numbers of the pages to sample
SamplePages(total_pages, k) ==
    LET pages_to_check == Min(k, total_pages)
        start_pages == 0..(Min(pages_to_check, total_pages) - 1)
        end_pages == Max(0, total_pages - pages_to_check)..(total_pages - 1)
    IN  SortedSeq(start_pages \cup end_pages)

\* sorted(blocks, key=lambda b: b[1]): stable
RECURSIVE InsertByY(_, _)
InsertByY(sorted, b) ==
    IF sorted = <<>> THEN <<b>>
    ELSE IF Head(sorted).y0 <= b.y0
    THEN <<Head(sorted)>> \o InsertByY(Tail(sorted), b)
    ELSE <<b>> \o sorted

RECURSIVE SortByY(_)
SortByY(blocks) ==
    IF blocks = <<>> THEN <<>>
    ELSE InsertByY(SortByY(SubSeq(blocks, 1, Len(blocks) - 1)), blocks[Len(blocks)])

FirstTwo(s) == SubSeq(s, 1, Min(2, Len(s)))
LastTwo(s) == SubSeq(s, Max(1, Len(s) - 1), Len(s))

\* ------------------------------------------------------------ collections
\* A Counter: entries [text, count] in order of first insertion
CounterAdd(counter, text) ==
    IF \E n \in 1..Len(counter) : counter[n].text = text
    THEN [n \in 1..Len(counter) |->
            IF counter[n].text = text
            THEN [counter[n] EXCEPT !.count = @ + 1] ELSE counter[n]]
    ELSE Append(counter, [text |-> text, count |-> 1])

RECURSIVE CounterOf(_)
CounterOf(texts) ==
    IF texts = <<>> THEN <<>>
    ELSE CounterAdd(CounterOf(SubSeq(texts, 1, Len(texts) - 1)), texts[Len(texts)])

MaxCount(counter) ==
    CHOOSE c \in {counter[n].count : n \in 1..Len(counter)} :
        \A n \in 1..Len(counter) : counter[n].count <= c

\* Counter.most_common(1)[0]: the first entry with the largest count
MostCommon(counter) ==
    counter[CHOOSE n \in 1..Len(counter) :
               /\ counter[n].count = MaxCount(counter)
               /\ \A m \in 1..(n - 1) : counter[m].count < MaxCount(counter)]

\* A filter that keeps the entries whose count / total_sampled <= thr
RECURSIVE EntriesAtMost(_, _, _)
EntriesAtMost(counter, total_sampled, thr) ==
    IF counter = <<>> THEN <<>>
    ELSE (IF Head(counter).count * 100 <= thr * total_sampled
          THEN <<Head(counter).text>> ELSE <<>>)
         \o EntriesAtMost(Tail(counter), total_sampled, thr)

\* The texts of the entries whose count / total_sampled >= thr
RECURSIVE EntriesAtLeast(_, _, _)
EntriesAtLeast(counter, total_sampled, thr) ==
    IF counter = <<>> THEN <<>>
    ELSE (IF Head(counter).count * 100 >= thr * total_sampled
          THEN <<Head(counter).text>> ELSE <<>>)
         \o EntriesAtLeast(Tail(counter), total_sampled, thr)

\* (occurrences at the top + occurrences at the bottom) / total_sampled / 2,
\* kept as an exact fraction num / den.  The code computes it in floating
\* point; for the 1 or 2 sampled pages of the documents below every
\* quotient is a binary fraction, so the float and the fraction agree.
ScoreOf(header_max, footer_max, total_sampled) ==
    IF header_max = 0 /\ footer_max = 0
    THEN [num |-> 0, den |-> 1]
    ELSE [num |-> header_max + footer_max, den |-> 2 * total_sampled]

ScoreLess(a, b) == a.num * b.den < b.num * a.den


\* A candidate filter that asks for more than 4 characters
AddCandidateOver4(counter, text) ==
    IF Len(text) > 4 THEN CounterAdd(counter, text) ELSE counter

\* --------------------------------------------- algorithm 1: text repetition
\* The loops of lines 102-111: count the stripped texts longer than 3
AddCandidate(counter, text) ==
    IF Len(text) > 3 THEN CounterAdd(counter, text) ELSE counter

RECURSIVE AddCandidates(_, _)
AddCandidates(counter, blocks) ==
    IF blocks = <<>> THEN counter
    ELSE AddCandidates(AddCandidate(counter, Strip(Head(blocks).text)),
                       Tail(blocks))

\* A loop that takes the footer candidates from the top of the page as well
TextRepetitionAddPageTopOnly(prev, blocks) ==
    IF blocks = <<>> THEN prev
    ELSE [header |-> AddCandidates(prev.header, FirstTwo(blocks)),
          footer |-> AddCandidates(prev.footer, FirstTwo(blocks))]

\* header_candidates and footer_candidates after the first n sampled pages
\* One turn of the loop of lines 89-108, on the sorted blocks of a page
TextRepetitionAddPage(prev, blocks) ==
    IF blocks = <<>> THEN prev
    ELSE [header |-> AddCandidates(prev.header, FirstTwo(blocks)),
          footer |-> AddCandidates(prev.footer, LastTwo(blocks))]

RECURSIVE TextRepetitionCounters(_, _, _)
TextRepetitionCounters(doc, sample, n) ==
    IF n = 0 THEN [header |-> <<>>, footer |-> <<>>]
    ELSE TextRepetitionAddPage(TextRepetitionCounters(doc, sample, n - 1),
                               SortByY(doc[sample[n] + 1]))

CounterMax(counter) == IF counter = <<>> THEN 0 ELSE MaxCount(counter)

\* Lines 110-135: the result made of the two counters
TextRepetitionResult(c, total_sampled, thr) ==
    [headers |-> EntriesAtLeast(c.header, total_sampled, thr),
     footers |-> EntriesAtLeast(c.footer, total_sampled, thr),
     consistency_score |->
         ScoreOf(CounterMax(c.header), CounterMax(c.footer), total_sampled)]

AlgorithmTextRepetition(doc, sample, thr) ==
    TextRepetitionResult(TextRepetitionCounters(doc, sample, Len(sample)),
                         Len(sample), thr)

\* ----------------------------------------------- algorithm 2: bbox matching
\* A position dict: entries [pos, texts] in order of first insertion
PositionAdd(positions, pos, text) ==
    IF \E n \in 1..Len(positions) : positions[n].pos = pos
    THEN [n \in 1..Len(positions) |->
            IF positions[n].pos = pos
            THEN [positions[n] EXCEPT !.texts = Append(@, text)] ELSE positions[n]]
    ELSE Append(positions, [pos |-> pos, texts |-> <<text>>])

InHeaderRegion(y0) == y0 * 10 < PageHeight
InFooterRegion(y0) == y0 * 10 > PageHeight * 9

\* The loop of lines 159-179 over the blocks of one page
\* One turn of the loop of lines 159-179: a block and its stripped text
BboxAddBlock(acc, block, text) ==
    IF Len(text) < 3 THEN acc
    ELSE IF InHeaderRegion(block.y0)
    THEN [acc EXCEPT !.header =
             PositionAdd(@, <<RoundToTolerance(block.x0),
                              RoundToTolerance(block.y0)>>, text)]
    ELSE IF InFooterRegion(block.y0)
    THEN [acc EXCEPT !.footer =
             PositionAdd(@, <<RoundToTolerance(block.x0),
                              RoundToTolerance(block.y0)>>, text)]
    ELSE acc

RECURSIVE BboxAddBlocks(_, _)
BboxAddBlocks(acc, blocks) ==
    IF blocks = <<>> THEN acc
    ELSE BboxAddBlocks(BboxAddBlock(acc, Head(blocks), Strip(Head(blocks).text)),
                       Tail(blocks))

\* header_positions and footer_positions after the first n sampled pages
RECURSIVE BboxPositions(_, _, _)
BboxPositions(doc, sample, n) ==
    IF n = 0 THEN [header |-> <<>>, footer |-> <<>>]
    ELSE BboxAddBlocks(BboxPositions(doc, sample, n - 1),
                       doc[sample[n] + 1])

\* The most common text of every position that passes the thr
RepeatedTexts(positions, total_sampled, thr) ==
    {most_common.text :
        most_common \in {c \in {MostCommon(CounterOf(positions[n].texts)) :
                                    n \in 1..Len(positions)} :
                            c.count * 100 >= thr * total_sampled}}

MaxMatch(positions) ==
    IF positions = <<>> THEN 0
    ELSE CHOOSE c \in {Len(positions[n].texts) : n \in 1..Len(positions)} :
             \A n \in 1..Len(positions) : Len(positions[n].texts) <= c

\* The result of _algorithm_bbox_matching before list(set(...)) orders it
BboxResult(p, total_sampled, thr) ==
    [headers |-> RepeatedTexts(p.header, total_sampled, thr),
     footers |-> RepeatedTexts(p.footer, total_sampled, thr),
     consistency_score |->
         ScoreOf(MaxMatch(p.header), MaxMatch(p.footer), total_sampled)]

BboxSets(doc, sample, thr) ==
    BboxResult(BboxPositions(doc, sample, Len(sample)), Len(sample), thr)

\* The orders list(set(...)) can give to a set
Perms(S) == {q \in [1..Cardinality(S) -> S] : Range(q) = S}

\* The size of the bucket whose most common text is listed first, or the
\* largest size when nothing is listed
ListedMatch(positions, listed) ==
    IF listed = <<>>
    THEN MaxMatch(positions)
    ELSE Len(positions[CHOOSE n \in 1..Len(positions) :
                 MostCommon(CounterOf(positions[n].texts)).text = listed[1]].texts)

\* A bbox score taken from the first listed header and footer
AlgorithmBboxMatchingByListed(doc, sample, thr, order) ==
    [headers |-> order.headers, footers |-> order.footers,
     consistency_score |->
         ScoreOf(ListedMatch(BboxPositions(doc, sample, Len(sample)).header,
                             order.headers),
                 ListedMatch(BboxPositions(doc, sample, Len(sample)).footer,
                             order.footers),
                 Len(sample))]

\* `order` holds the orders list(set(headers)) and list(set(footers)) take
AlgorithmBboxMatching(doc, sample, thr, order) ==
    [headers |-> order.headers, footers |-> order.footers,
     consistency_score |-> BboxSets(doc, sample, thr).consistency_score]

OrdersOf(r) == [headers : Perms(r.headers), footers : Perms(r.footers)]

BboxOrders(doc, sample, thr) == OrdersOf(BboxSets(doc, sample, thr))

\* ---------------------------------------------- algorithm 3: fuzzy matching
\* _add_to_fuzzy_group: join the first group, from the n-th on, whose
\* pattern is similar enough, else start a new group
RECURSIVE AddToFuzzyGroupFrom(_, _, _, _, _)
AddToFuzzyGroupFrom(groups, n, pattern, example, similarity) ==
    IF n > Len(groups)
    THEN Append(groups, [pattern |-> pattern, examples |-> <<example>>])
    ELSE IF SimilarAtLeast(groups[n].pattern, pattern, similarity)
    THEN [groups EXCEPT ![n].examples = Append(@, example)]
    ELSE AddToFuzzyGroupFrom(groups, n + 1, pattern, example, similarity)

AddToFuzzyGroup(groups, pattern, example, similarity) ==
    AddToFuzzyGroupFrom(groups, 1, pattern, example, similarity)

\* The loop of lines 242-257 over the sorted blocks of one page
\* The group list a block at y0 goes to: "header", "footer" or "none"
RegionOf(y0) ==
    IF InHeaderRegion(y0) THEN "header"
    ELSE IF InFooterRegion(y0) THEN "footer"
    ELSE "none"

\* A turn of the loop that groups the texts with their digits left in
FuzzyAddBlockRaw(acc, region, text) ==
    IF Len(text) < 3 \/ region = "none" THEN acc
    ELSE [acc EXCEPT ![region] = AddToFuzzyGroup(@, text, text, 85)]

\* One turn of the loop of lines 242-257: a block's region and stripped text
FuzzyAddBlock(acc, region, text) ==
    IF Len(text) < 3 \/ region = "none" THEN acc
    ELSE [acc EXCEPT ![region] = AddToFuzzyGroup(@, NormalizeDigits(text), text, 85)]

RECURSIVE FuzzyAddBlocks(_, _)
FuzzyAddBlocks(acc, blocks) ==
    IF blocks = <<>> THEN acc
    ELSE FuzzyAddBlocks(FuzzyAddBlock(acc, RegionOf(Head(blocks).y0),
                                      Strip(Head(blocks).text)),
                        Tail(blocks))

\* header_groups and footer_groups after the first n sampled pages
RECURSIVE FuzzyGroups(_, _, _)
FuzzyGroups(doc, sample, n) ==
    IF n = 0 THEN [header |-> <<>>, footer |-> <<>>]
    ELSE FuzzyAddBlocks(FuzzyGroups(doc, sample, n - 1),
                        SortByY(doc[sample[n] + 1]))

RECURSIVE FrequentPatterns(_, _, _)
FrequentPatterns(groups, total_sampled, thr) ==
    IF groups = <<>> THEN <<>>
    ELSE (IF Len(Head(groups).examples) * 100 >= thr * total_sampled
          THEN <<Head(groups).pattern>> ELSE <<>>)
         \o FrequentPatterns(Tail(groups), total_sampled, thr)

MaxGroupSize(groups) ==
    IF groups = <<>> THEN 0
    ELSE CHOOSE c \in {Len(groups[n].examples) : n \in 1..Len(groups)} :
             \A n \in 1..Len(groups) : Len(groups[n].examples) <= c

\* Lines 259-291: the result made of the two group lists
FuzzyResult(g, total_sampled, thr) ==
    [headers |-> FrequentPatterns(g.header, total_sampled, thr),
     footers |-> FrequentPatterns(g.footer, total_sampled, thr),
     consistency_score |->
         ScoreOf(MaxGroupSize(g.header), MaxGroupSize(g.footer), total_sampled)]

AlgorithmFuzzyMatching(doc, sample, thr) ==
    FuzzyResult(FuzzyGroups(doc, sample, Len(sample)), Len(sample), thr)


\* ------------------------------------------------------------------ detect
\* The order in which detect() runs the algs and fills `results`
AlgorithmOrder == <<"text_repetition", "bbox_matching", "fuzzy_matching">>

\* The results dict of detect(): entries [name, result] in insertion order
RunAlgorithms(doc, sample, algs, thr, order) ==
    (IF "text_repetition" \in Range(algs)
     THEN <<[name |-> "text_repetition",
             result |-> AlgorithmTextRepetition(doc, sample, thr)]>>
     ELSE <<>>)
    \o (IF "bbox_matching" \in Range(algs)
        THEN <<[name |-> "bbox_matching",
                result |-> AlgorithmBboxMatching(doc, sample, thr, order)]>>
        ELSE <<>>)
    \o (IF "fuzzy_matching" \in Range(algs)
        THEN <<[name |-> "fuzzy_matching",
                result |-> AlgorithmFuzzyMatching(doc, sample, thr)]>>
        ELSE <<>>)

\* A max() that keeps the last of the entries with the largest score
BestAlgorithmLast(results) ==
    results[CHOOSE n \in 1..Len(results) :
        /\ \A m \in 1..Len(results) :
              ~ScoreLess(results[n].result.consistency_score,
                         results[m].result.consistency_score)
        /\ \A m \in (n + 1)..Len(results) :
              ScoreLess(results[m].result.consistency_score,
                        results[n].result.consistency_score)]

\* max(results.items(), key=score): the first entry with the largest score
BestAlgorithm(results) ==
    results[CHOOSE n \in 1..Len(results) :
        /\ \A m \in 1..Len(results) :
              ~ScoreLess(results[n].result.consistency_score,
                         results[m].result.consistency_score)
        /\ \A m \in 1..(n - 1) :
              ScoreLess(results[m].result.consistency_score,
                        results[n].result.consistency_score)]

\* detect(): `throwing` are the algs that throw when they are run
\* Lines 75-78: the winner's result, with its name added
Selected(best_algorithm) ==
    [headers |-> best_algorithm.result.headers,
     footers |-> best_algorithm.result.footers,
     consistency_score |-> best_algorithm.result.consistency_score,
     algorithm_used |-> best_algorithm.name]

\* Lines 70-78; max() of an empty dict raises ValueError
SelectBest(results) ==
    IF results = <<>>
    THEN [raised |-> TRUE]
    ELSE [raised |-> FALSE, result |-> Selected(BestAlgorithm(results))]

Detect(doc, k, algs, thr, throwing, order) ==
    IF Range(algs) \cap throwing # {}
    THEN [raised |-> TRUE]
    ELSE SelectBest(RunAlgorithms(doc, SamplePages(Len(doc), k), algs, thr, order))

\* What process_pdf_file puts in hf_results when detect() raises
FailedHfResults ==
    [headers |-> <<>>, footers |-> <<>>, consistency_score |-> [num |-> 0, den |-> 1]]


\* ------------------------------------------- removal and text extraction
\* re.fullmatch(pattern.replace('#', r'\d+'), text), for patterns of
\* letters, digits, blanks, '#' and '.': the pattern is not escaped, so its
\* '.' stands for any character but a line end
RECURSIVE FullMatch(_, _)
FullMatch(pattern, text) ==
    IF pattern = <<>> THEN text = <<>>
    ELSE IF Head(pattern) = "#"
    THEN \E k \in 1..Len(text) :
            /\ \A i \in 1..k : text[i] \in Digits
            /\ FullMatch(Tail(pattern), SubSeq(text, k + 1, Len(text)))
    ELSE IF Head(pattern) = "."
    THEN /\ text # <<>>
         /\ Head(text) # "\n"
         /\ FullMatch(Tail(pattern), Tail(text))
    ELSE /\ text # <<>>
         /\ Head(text) = Head(pattern)
         /\ FullMatch(Tail(pattern), Tail(text))

\* The parentheses of a pattern read as a regular expression: the number
\* of '(' left open at its end, -1 when a ')' closes nothing
RECURSIVE ParenDepth(_, _)
ParenDepth(pattern, open) ==
    IF pattern = <<>> THEN open
    ELSE IF Head(pattern) = "(" THEN ParenDepth(Tail(pattern), open + 1)
    ELSE IF Head(pattern) # ")" THEN ParenDepth(Tail(pattern), open)
    ELSE IF open = 0 THEN -1
    ELSE ParenDepth(Tail(pattern), open - 1)

\* re.fullmatch raises re.error: the pattern is no regular expression
RegexError(pattern) == ParenDepth(pattern, 0) # 0

\* _text_matches_pattern, and _line_matches_pattern of the text extractor
TextMatchesPattern(text, pattern) ==
    \/ text = pattern
    \/ FullMatch(pattern, text)
    \/ SimilarAtLeast(text, pattern, 90)

MatchesAny(text, patterns) ==
    \E n \in 1..Len(patterns) : TextMatchesPattern(text, patterns[n])

\* Lines 336-345, and lines 170-183 of the text extractor
IsHeaderOrFooter(text, headers, footers) ==
    MatchesAny(text, headers) \/ MatchesAny(text, footers)

\* remove_headers_footers: the <<page, block>> places whose text matches a
\* header or a footer and is covered by a white rectangle
RemoveHeadersFooters(doc, headers, footers) ==
    {place \in UNION {{<<p, b>> : b \in 1..Len(doc[p])} : p \in 1..Len(doc)} :
        IsHeaderOrFooter(Strip(doc[place[1]][place[2]].text), headers, footers)}

\* A line of page.get_text("text"): the text of a block without its line end
RECURSIVE LineOf(_)
LineOf(text) ==
    IF text = <<>> THEN <<>>
    ELSE (IF Head(text) = "\n" THEN <<>> ELSE <<Head(text)>>) \o LineOf(Tail(text))

\* page.get_text("text").split('\n'): the lines of a page
PageLines(page) == [b \in 1..Len(page) |-> LineOf(page[b].text)]

\* _remove_headers_footers_from_text: the lines that match no pattern
RECURSIVE RemoveHeadersFootersFromText(_, _, _)
RemoveHeadersFootersFromText(lines, headers, footers) ==
    IF lines = <<>> THEN <<>>
    ELSE (IF IsHeaderOrFooter(Strip(Head(lines)), headers, footers)
          THEN <<>> ELSE <<Head(lines)>>)
         \o RemoveHeadersFootersFromText(Tail(lines), headers, footers)

\* extract_text: page_texts, every page as its lines (the texts are ASCII,
\* which NFC normalisation leaves as they are)
ExtractText(doc, headers, footers) ==
    [p \in 1..Len(doc) |->
        IF headers # <<>> \/ footers # <<>>
        THEN RemoveHeadersFootersFromText(PageLines(doc[p]), headers, footers)
        ELSE PageLines(doc[p])]

\* ----------------------------------------------- detector: specification
RECURSIVE Sum(_)
Sum(sizes) == IF sizes = <<>> THEN 0 ELSE Head(sizes) + Sum(Tail(sizes))

\* The pages of a document: blocks cut into pages of the given sizes
RECURSIVE SplitPages(_, _)
SplitPages(blocks, sizes) ==
    IF sizes = <<>> THEN <<>>
    ELSE <<SubSeq(blocks, 1, Head(sizes))>>
         \o SplitPages(SubSeq(blocks, Head(sizes) + 1, Len(blocks)), Tail(sizes))

\* Every document of 1..MaxPages pages and at most MaxDocBlocks blocks
Documents ==
    {SplitPages(c[1], c[2]) :
        c \in {d \in SeqsUpTo(BlockKinds, MaxDocBlocks)
                       \X SeqsUpTo(0..MaxDocBlocks, MaxPages) :
                  Len(d[2]) >= 1 /\ Sum(d[2]) = Len(d[1])}}

Thresholds == {50, 85}
SamplePageCounts == {1}
AlgorithmLists ==
    {AlgorithmOrder,
     <<"fuzzy_matching", "text_repetition">>,
     <<"bbox_matching", "fuzzy_matching">>,
     <<>>}

\* Which algorithms throw on a PDF: none, one of them, or all of them
Throwing ==
    {{}} \cup {{a} : a \in Range(AlgorithmOrder)} \cup {Range(AlgorithmOrder)}

\* The text no step has extracted yet
NoText == [extracted |-> FALSE, page_texts |-> <<>>]

\* The pipeline's side of the state while one service runs on its own
RunIdle ==
    /\ args_preview = FALSE
    /\ config_preview_only = FALSE
    /\ preview_only = FALSE
    /\ generate_chunk_simulation = TRUE
    /\ redacted = {}
    /\ text_result = NoText
    /\ temp_cleaned = Pdf({}, <<>>)
    /\ cleaned = NoFile
    /\ hf_removed_count = -1
    /\ cleaning_counts = NoCounts

\* Nothing has run beside the run of process_pdf_file
BatchIdle ==
    /\ pdf_files = <<>>
    /\ file_index = 0
    /\ all_reports = <<>>
    /\ combined_report = NoCombinedReport
    /\ batch_log = <<>>

OcrIdle ==
    /\ ocr_input = <<>>
    /\ chunk_size = 200
    /\ chunks = <<>>
    /\ chunk_files = <<>>
    /\ ocr_output = <<>>

NoCall == [fn |-> "none"]
NotReturned == [state |-> "not returned"]

CallIdle ==
    /\ call = NoCall
    /\ returned = NotReturned

AsideIdle ==
    /\ rerun_results = FailedImageResults
    /\ BatchIdle
    /\ OcrIdle
    /\ CallIdle

\* The classifier's side of the state while only the detector runs
ImgIdle ==
    /\ area_threshold = 5
    /\ min_lines_for_table = 3
    /\ keep_tables = TRUE
    /\ remove_decorative = TRUE
    /\ images = <<>>
    /\ img_results = FailedImageResults
    /\ overlaid = <<>>
    /\ removed_count = -1

InitDetector ==
    /\ pc = "header_footer_detection"
    /\ report = NoReport
    /\ AsideIdle
    /\ ImgIdle
    /\ RunIdle
    /\ threshold \in Thresholds
    /\ sample_pages \in SamplePageCounts
    /\ algorithms \in AlgorithmLists
    /\ document \in Documents
    /\ raising = {}
    /\ hf_results = FailedHfResults

\* A STEP 2 whose failure ends the run
HeaderFooterDetectionFatal(next_pc) ==
    /\ pc = "header_footer_detection"
    /\ \E throwing \in Throwing :
       \E order \in BboxOrders(document,
                               SamplePages(Len(document), sample_pages), threshold) :
       \E d \in {Detect(document, sample_pages, algorithms, threshold,
                       throwing, order)} :
             /\ raising' = throwing
             /\ IF d.raised
                THEN /\ hf_results' = FailedHfResults
                     /\ report' = [report EXCEPT
                                     !["header_footer_detection"] = "failed"]
                     /\ pc' = "done"
                ELSE /\ hf_results' = d.result
                     /\ report' = [report EXCEPT
                                     !["header_footer_detection"] = "completed"]
                     /\ pc' = next_pc
    /\ UNCHANGED <<aside, imgConfig, imgState, hfConfig, document, runConfig, runState>>

\* STEP 2 of process_pdf_file: detect(), or its except branch
HeaderFooterDetection(next_pc) ==
    /\ pc = "header_footer_detection"
    /\ \E throwing \in Throwing :
       \E order \in BboxOrders(document,
                               SamplePages(Len(document), sample_pages), threshold) :
       \E d \in {Detect(document, sample_pages, algorithms, threshold,
                       throwing, order)} :
             /\ raising' = throwing
             /\ IF d.raised
                THEN /\ hf_results' = FailedHfResults
                     /\ report' = [report EXCEPT
                                     !["header_footer_detection"] = "failed"]
                ELSE /\ hf_results' = d.result
                     /\ report' = [report EXCEPT
                                     !["header_footer_detection"] = "completed"]
    /\ pc' = next_pc
    /\ UNCHANGED <<aside, imgConfig, imgState, hfConfig, document, runConfig, runState>>

DetectorDetect == HeaderFooterDetection("done")

NextDetector == DetectorDetect

SpecDetector == InitDetector /\ [][NextDetector]_vars


\* --------------------------------------------- classifier: specification
AreaThresholds == {5, 15}
MinLines == {1, 3}

\* The detector's side of the state while only the classifier runs
HfIdle ==
    /\ threshold = 85
    /\ sample_pages = 50
    /\ algorithms = AlgorithmOrder
    /\ document = <<>>
    /\ raising = {}
    /\ hf_results = FailedHfResults

InitClassifier ==
    /\ pc = "image_analysis"
    /\ report = NoReport
    /\ AsideIdle
    /\ HfIdle
    /\ RunIdle
    /\ area_threshold \in AreaThresholds
    /\ min_lines_for_table \in MinLines
    /\ keep_tables \in BOOLEAN
    /\ remove_decorative \in BOOLEAN
    /\ images \in SeqsUpTo(ImageInputs, MaxImages)
    /\ img_results = FailedImageResults
    /\ overlaid = <<>>
    /\ removed_count = -1

\* STEP 3 of process_pdf_file: analyze_images, or its except branch
ImageAnalysis(next_pc) ==
    /\ pc = "image_analysis"
    /\ \E open_ok \in BOOLEAN :
         IF open_ok
         THEN /\ img_results' =
                    AnalyzeImages(images, area_threshold, min_lines_for_table)
              /\ report' = [report EXCEPT !["image_analysis"] = "completed"]
         ELSE /\ img_results' = FailedImageResults
              /\ report' = [report EXCEPT !["image_analysis"] = "failed"]
    /\ pc' = next_pc
    /\ UNCHANGED <<aside, imgConfig, images, overlaid, removed_count, hfConfig, hfState,
                   runConfig, runState>>

\* Lines 261-265: the counts the report gives for a completed cleaning
CleaningCounts(hf, images_removed) ==
    [headers_footers_removed |-> Len(hf.headers) + Len(hf.footers),
     images_removed |-> images_removed]

\* STEP 5, second half: remove_decorative_images on the decorative list
\* writes versions['cleaned'], or raises and the temporary file is copied
\* there; then the temporary file is deleted
RemoveDecorativeImages(next_pc) ==
    /\ pc = "remove_images"
    /\ LET decorative == img_results.decorative_images IN
       IF ~remove_decorative
       THEN /\ overlaid' = <<>>
            /\ removed_count' = 0
            /\ cleaned' = cleaned
            /\ report' = [report EXCEPT !["final_cleaning"] = "completed"]
            /\ cleaning_counts' = CleaningCounts(hf_results, 0)
       ELSE \E call_ok \in BOOLEAN, drawn \in SUBSET (1..Len(decorative)) :
              IF call_ok
              THEN /\ overlaid' = SubSeqAt(decorative, drawn, 1)
                   /\ removed_count' = Cardinality(drawn)
                   /\ cleaned' = Pdf(temp_cleaned.covered, overlaid')
                   /\ report' = [report EXCEPT !["final_cleaning"] = "completed"]
                   /\ cleaning_counts' =
                          CleaningCounts(hf_results, Cardinality(drawn))
              ELSE /\ drawn = {}
                   /\ overlaid' = <<>>
                   /\ removed_count' = removed_count
                   /\ cleaned' = temp_cleaned
                   /\ report' = [report EXCEPT !["final_cleaning"] = "partial"]
                   /\ cleaning_counts' = cleaning_counts
    /\ temp_cleaned' = NoFile
    /\ pc' = next_pc
    /\ UNCHANGED <<aside, imgConfig, images, img_results, hfConfig, hfState,
                   runConfig, redacted, text_result, hf_removed_count>>

ClassifierAnalyze == ImageAnalysis("remove_images")
ClassifierRemove == RemoveDecorativeImages("done")

NextClassifier == ClassifierAnalyze \/ ClassifierRemove

SpecClassifier == InitClassifier /\ [][NextClassifier]_vars

\* --------------------------------------- classifier: a second analysis
\* A second analyze_images that goes on from the lists the first one filled
ImageAnalysisAgainOnKept ==
    /\ pc = "image_analysis_again"
    /\ \E open_ok \in BOOLEAN :
         rerun_results' =
            IF open_ok
            THEN AnalyzeFrom(IF "total_images" \in DOMAIN img_results
                             THEN img_results ELSE EmptyResults,
                             1, images, area_threshold, min_lines_for_table)
            ELSE FailedImageResults
    /\ pc' = "done"
    /\ UNCHANGED <<report, imgConfig, imgState, hfConfig, hfState, runConfig,
                   runState, batchState, ocrState, callState>>

\* analyze_images called again on the same PDF by the same ImageClassifier:
\* it returns its lists, or raises when the PDF cannot be opened
ImageAnalysisAgain ==
    /\ pc = "image_analysis_again"
    /\ \E open_ok \in BOOLEAN :
         rerun_results' =
            IF open_ok
            THEN AnalyzeImages(images, area_threshold, min_lines_for_table)
            ELSE FailedImageResults
    /\ pc' = "done"
    /\ UNCHANGED <<report, imgConfig, imgState, hfConfig, hfState, runConfig,
                   runState, batchState, ocrState, callState>>

ReanalysisFirst == ImageAnalysis("image_analysis_again")

NextReanalysis == ReanalysisFirst \/ ImageAnalysisAgain

SpecReanalysis == InitClassifier /\ [][NextReanalysis]_vars

\* ---------------------------------------------- pipeline: specification
Block(y0, text) == [x0 |-> 0, y0 |-> y0, text |-> text]

\* The PDFs the pipeline is run on: two pages with a running head and
\* numbered feet, one page that carries its head twice, two pages without
\* head or foot, and a blank page
PipelineDocuments ==
    {<<<<Block(4, TextHead), Block(50, TextBody), Block(95, TextPg1)>>,
       <<Block(4, TextHead), Block(50, TextBody), Block(95, TextPg2)>>>>,
     <<<<Block(4, TextHead), Block(4, TextHead)>>>>,
     <<<<Block(50, TextBody)>>, <<>>>>,
     <<<<>>>>}

\* Their images: none; a logo and a scanned table; a figure and an image
\* whose extraction fails
PipelineImages ==
    {<<>>,
     <<[fail |-> "none", area |-> 3, ocr |-> <<0, 0>>, has_table_structure |-> FALSE],
       [fail |-> "none", area |-> 25, ocr |-> <<3, 11>>, has_table_structure |-> TRUE]>>,
     <<[fail |-> "none", area |-> 25, ocr |-> <<1, 11>>, has_table_structure |-> FALSE],
       [fail |-> "extract_error", area |-> 3, ocr |-> <<0, 0>>,
        has_table_structure |-> FALSE]>>}

\* main, lines 384-387: the configuration can force the preview mode that
\* the command line did not ask for
PreviewMode(flag, forced) == IF forced THEN TRUE ELSE flag

Init ==
    /\ pc = "ocr"
    /\ report = NoReport
    /\ AsideIdle
    /\ area_threshold = 5
    /\ min_lines_for_table = 3
    /\ keep_tables = TRUE
    /\ remove_decorative \in BOOLEAN
    /\ images \in {imgs \in PipelineImages : Len(imgs) <= MaxImages}
    /\ img_results = FailedImageResults
    /\ overlaid = <<>>
    /\ removed_count = -1
    /\ threshold \in Thresholds
    /\ sample_pages \in SamplePageCounts
    /\ algorithms \in AlgorithmLists
    /\ document \in PipelineDocuments
    /\ raising = {}
    /\ hf_results = FailedHfResults
    /\ args_preview \in BOOLEAN
    /\ config_preview_only \in BOOLEAN
    /\ preview_only = PreviewMode(args_preview, config_preview_only)
    /\ generate_chunk_simulation \in BOOLEAN
    /\ redacted = {}
    /\ text_result = NoText
    /\ temp_cleaned = NoFile
    /\ cleaned = NoFile
    /\ hf_removed_count = -1
    /\ cleaning_counts = NoCounts

\* STEP 1: process_pdf writes versions['ocr'], or raises and the original
\* file takes its place.  `document` is the file the later steps open.
OcrProcessing ==
    /\ pc = "ocr"
    /\ \E ocr_ok \in BOOLEAN :
         IF ocr_ok
         THEN /\ document' \in {d \in PipelineDocuments : Len(d) = Len(document)}
              /\ report' = [report EXCEPT !["ocr"] = "completed"]
         ELSE /\ document' = document
              /\ report' = [report EXCEPT !["ocr"] = "failed"]
    /\ pc' = "header_footer_detection"
    /\ UNCHANGED <<aside, imgConfig, imgState, hfConfig, raising, hf_results,
                   runConfig, runState>>

\* A STEP 4 whose failure ends the run of the document
GeneratePreviewFatal ==
    /\ pc = "preview"
    /\ \E preview_ok \in BOOLEAN :
         /\ report' = [report EXCEPT
                         !["preview"] = IF preview_ok THEN "completed" ELSE "failed"]
         /\ pc' = IF preview_ok THEN "final_cleaning" ELSE "done"
    /\ UNCHANGED <<aside, imgConfig, imgState, hfConfig, hfState, runConfig, runState>>

\* STEP 4: the preview report is generated and saved, or that raises
GeneratePreview ==
    /\ pc = "preview"
    /\ \E preview_ok \in BOOLEAN :
         report' = [report EXCEPT
                      !["preview"] = IF preview_ok THEN "completed" ELSE "failed"]
    /\ pc' = "final_cleaning"
    /\ UNCHANGED <<aside, imgConfig, imgState, hfConfig, hfState, runConfig, runState>>

\* A STEP 5 that does not look at preview_only
FinalCleaningAlways ==
    /\ pc = "final_cleaning"
    /\ \E removal_ok \in BOOLEAN :
         IF removal_ok
         THEN /\ redacted' = RemoveHeadersFooters(document,
                                 hf_results.headers, hf_results.footers)
              /\ hf_removed_count' = Cardinality(redacted')
              /\ temp_cleaned' = Pdf(redacted', <<>>)
         ELSE /\ redacted' = {}
              /\ hf_removed_count' = hf_removed_count
              /\ temp_cleaned' = Pdf({}, <<>>)
    /\ report' = report
    /\ pc' = "remove_images"
    /\ UNCHANGED <<aside, imgConfig, imgState, hfConfig, hfState, runConfig,
                   text_result, cleaned, cleaning_counts>>

\* STEP 5, first half: skipped in preview mode; else remove_headers_footers,
\* or the copy of versions['ocr'] that replaces it when it raises
FinalCleaning ==
    /\ pc = "final_cleaning"
    /\ IF preview_only
       THEN /\ report' = [report EXCEPT !["final_cleaning"] = "skipped"]
            /\ UNCHANGED <<redacted, hf_removed_count, temp_cleaned>>
            /\ pc' = "text_extraction"
       ELSE /\ \E removal_ok \in BOOLEAN :
                 IF removal_ok
                 THEN /\ redacted' = RemoveHeadersFooters(document,
                                         hf_results.headers, hf_results.footers)
                      /\ hf_removed_count' = Cardinality(redacted')
                      /\ temp_cleaned' = Pdf(redacted', <<>>)
                 ELSE /\ redacted' = {}
                      /\ hf_removed_count' = hf_removed_count
                      /\ temp_cleaned' = Pdf({}, <<>>)
            /\ report' = report
            /\ pc' = "remove_images"
    /\ UNCHANGED <<aside, imgConfig, imgState, hfConfig, hfState, runConfig,
                   text_result, cleaned, cleaning_counts>>

\* STEP 6: extract_text and save_text, then the chunk simulation and the
\* report entry if it is configured; any of them may raise
TextExtraction ==
    /\ pc = "text_extraction"
    /\ \E outcome \in {"ok", "extract_error", "chunk_error"} :
         LET text == [extracted |-> TRUE,
                      page_texts |-> ExtractText(document, hf_results.headers,
                                                 hf_results.footers)]
         IN  /\ outcome = "chunk_error" => generate_chunk_simulation
             /\ text_result' = IF outcome = "extract_error" THEN text_result ELSE text
             /\ report' =
                  IF outcome # "ok"
                  THEN [report EXCEPT !["text_extraction"] = "failed"]
                  ELSE IF generate_chunk_simulation
                  THEN [report EXCEPT !["text_extraction"] = "completed"]
                  ELSE report
    /\ pc' = "done"
    /\ UNCHANGED <<aside, imgConfig, imgState, hfConfig, hfState, runConfig,
                   redacted, temp_cleaned, cleaned, hf_removed_count,
                   cleaning_counts>>

Next ==
    \/ OcrProcessing
    \/ HeaderFooterDetection("image_analysis")
    \/ ImageAnalysis("preview")
    \/ GeneratePreview
    \/ FinalCleaning
    \/ RemoveDecorativeImages("text_extraction")
    \/ TextExtraction

Spec == Init /\ [][Next]_vars

\* --------------------------------------------------- batch: specification
\* What one run of process_pdf_file reads and writes
runVars == <<report, imgConfig, imgState, hfConfig, hfState, runConfig, runState>>

\* The lists of files main can be given: up to MaxFiles files, in the order
\* the command line or glob() gives them (an empty list ends main before
\* the loop, lines 399-401)
FileLists == UNION {Perms(1..n) : n \in 1..MaxFiles}

\* The positions of a file inside process_pdf_file: the set-up of lines
\* 81-126, the six steps, the return of the report
BatchPositions ==
    <<"setup", "ocr", "header_footer_detection", "image_analysis", "preview",
      "final_cleaning", "text_extraction", "return">>

BatchPlace(at) == CHOOSE n \in 1..Len(BatchPositions) : BatchPositions[n] = at

\* Where an exception can leave process_pdf_file: the set-up has no
\* try/except (save_as_copies copies the file), and outside preview mode
\* the except branches of STEP 5 copy a file themselves
CanEscape(at) == at = "setup" \/ (at = "final_cleaning" /\ ~preview_only)

InitBatch ==
    /\ pc = "next_file"
    /\ report = NoReport
    /\ ImgIdle
    /\ HfIdle
    /\ args_preview \in BOOLEAN
    /\ config_preview_only \in BOOLEAN
    /\ preview_only = PreviewMode(args_preview, config_preview_only)
    /\ generate_chunk_simulation = TRUE
    /\ redacted = {}
    /\ text_result = NoText
    /\ temp_cleaned = NoFile
    /\ cleaned = NoFile
    /\ hf_removed_count = -1
    /\ cleaning_counts = NoCounts
    /\ rerun_results = FailedImageResults
    /\ OcrIdle
    /\ CallIdle
    /\ pdf_files \in FileLists
    /\ file_index = 0
    /\ all_reports = <<>>
    /\ combined_report = NoCombinedReport
    /\ batch_log = <<>>

\* The for statement of line 408 takes the next file of the list
NextFile ==
    /\ pc = "next_file"
    /\ file_index < Len(pdf_files)
    /\ file_index' = file_index + 1
    /\ pc' = "setup"
    /\ UNCHANGED <<runVars, rerun_results, ocrState, callState, pdf_files, all_reports,
                   combined_report, batch_log>>

\* A step whose exception nothing catches: main ends with it
ProcessStepUncaught ==
    /\ pc \in Range(BatchPositions) \ {"return"}
    /\ \E escapes \in BOOLEAN :
         /\ escapes => CanEscape(pc)
         /\ batch_log' = Append(batch_log, [file |-> pdf_files[file_index],
                                            at |-> pc, escaped |-> escapes])
         /\ pc' = IF escapes THEN "crashed"
                  ELSE BatchPositions[BatchPlace(pc) + 1]
    /\ UNCHANGED <<runVars, rerun_results, ocrState, callState, pdf_files, file_index,
                   all_reports, combined_report>>

\* One part of process_pdf_file on the file in work: it goes on to the next
\* part, whether the part completed or failed inside its own try/except, or
\* its exception leaves process_pdf_file and main's except (lines 417-420)
\* logs it and goes on with the loop
ProcessStep ==
    /\ pc \in Range(BatchPositions) \ {"return"}
    /\ \E escapes \in BOOLEAN :
         /\ escapes => CanEscape(pc)
         /\ batch_log' = Append(batch_log, [file |-> pdf_files[file_index],
                                            at |-> pc, escaped |-> escapes])
         /\ pc' = IF escapes THEN "next_file"
                  ELSE BatchPositions[BatchPlace(pc) + 1]
    /\ UNCHANGED <<runVars, rerun_results, ocrState, callState, pdf_files, file_index,
                   all_reports, combined_report>>

\* process_pdf_file returns its report and main appends it (lines 415-416)
ReturnReport ==
    /\ pc = "return"
    /\ all_reports' = Append(all_reports, [file_name |-> pdf_files[file_index],
                                           status |-> "completed"])
    /\ batch_log' = Append(batch_log, [file |-> pdf_files[file_index],
                                       at |-> pc, escaped |-> FALSE])
    /\ pc' = "next_file"
    /\ UNCHANGED <<runVars, rerun_results, ocrState, callState, pdf_files, file_index,
                   combined_report>>

\* After the loop main writes cleaning_report.json (lines 422-436)
WriteCombinedReport ==
    /\ pc = "next_file"
    /\ file_index = Len(pdf_files)
    /\ combined_report' = [written |-> TRUE,
                           total_files |-> Len(pdf_files),
                           processed |-> Len(all_reports),
                           preview_mode |-> preview_only,
                           files |-> all_reports]
    /\ pc' = "done"
    /\ UNCHANGED <<runVars, rerun_results, ocrState, callState, pdf_files, file_index,
                   all_reports, batch_log>>

NextBatch == NextFile \/ ProcessStep \/ ReturnReport \/ WriteCombinedReport

SpecBatch == InitBatch /\ [][NextBatch]_vars

\* ----------------------------------------------------- OCR: specification
\* A PDF of n pages that no OCR has touched
InputPdf(n) == [p \in 1..n |-> [page |-> p, ocr |-> FALSE]]

\* What ocrmypdf writes for a PDF it processes: the same pages, each with a
\* text layer
OcrPages(pdf) == [n \in 1..Len(pdf) |-> [pdf[n] EXCEPT !.ocr = TRUE]]

\* A chunk that runs to page end_page of the 0-based numbering, one too far
ChunkPagesInclusive(pdf, start_page, size) ==
    SubSeq(pdf, start_page + 1, Min(Min(start_page + size, Len(pdf)) + 1, Len(pdf)))

\* _split_pdf, lines 176-180: insert_pdf from start_page to end_page - 1
\* of the 0-based numbering
ChunkPages(pdf, start_page, size) ==
    SubSeq(pdf, start_page + 1, Min(start_page + size, Len(pdf)))

\* _split_pdf: the loop over range(0, total_pages, chunk_size)
RECURSIVE SplitFrom(_, _, _)
SplitFrom(pdf, start_page, size) ==
    IF start_page >= Len(pdf) THEN <<>>
    ELSE <<ChunkPages(pdf, start_page, size)>>
         \o SplitFrom(pdf, start_page + size, size)

SplitPdf(pdf, size) == SplitFrom(pdf, 0, size)

\* _merge_pdfs: insert_pdf of every file, in the order of the list
RECURSIVE MergePdfs(_)
MergePdfs(files) ==
    IF files = <<>> THEN <<>> ELSE Head(files) \o MergePdfs(Tail(files))

ChunkSizes == 1..3

InitOcr ==
    /\ pc = "process_pdf"
    /\ report = NoReport
    /\ ImgIdle
    /\ HfIdle
    /\ RunIdle
    /\ rerun_results = FailedImageResults
    /\ BatchIdle
    /\ CallIdle
    /\ ocr_input \in {InputPdf(n) : n \in 1..MaxOcrPages}
    /\ chunk_size \in ChunkSizes
    /\ chunks = <<>>
    /\ chunk_files = <<>>
    /\ ocr_output = <<>>

\* process_pdf: count the pages, then OCR the file as a whole or, when it
\* has more pages than chunk_size, split it (lines 124-127); opening or
\* splitting can raise
ProcessPdf ==
    /\ pc = "process_pdf"
    /\ \E open_ok \in BOOLEAN :
         IF ~open_ok
         THEN pc' = "raised" /\ chunks' = chunks
         ELSE IF Len(ocr_input) <= chunk_size
         THEN pc' = "single" /\ chunks' = chunks
         ELSE pc' = "chunks" /\ chunks' = SplitPdf(ocr_input, chunk_size)
    /\ UNCHANGED <<runVars, rerun_results, batchState, callState, ocr_input, chunk_size,
                   chunk_files, ocr_output>>

\* _process_single_pdf on the whole file
ProcessSinglePdf ==
    /\ pc = "single"
    /\ \E ocr_ok \in BOOLEAN :
         IF ocr_ok
         THEN pc' = "done" /\ ocr_output' = OcrPages(ocr_input)
         ELSE pc' = "raised" /\ ocr_output' = ocr_output
    /\ UNCHANGED <<runVars, rerun_results, batchState, callState, ocr_input, chunk_size,
                   chunks, chunk_files>>

\* One turn of the loop of lines 130-142: the next chunk is processed and
\* its output joins the list, or its OCR fails and the chunk itself does
ProcessChunk ==
    /\ pc = "chunks"
    /\ Len(chunk_files) < Len(chunks)
    /\ \E ocr_ok \in BOOLEAN :
         chunk_files' =
            Append(chunk_files,
                   IF ocr_ok THEN OcrPages(chunks[Len(chunk_files) + 1])
                   ELSE chunks[Len(chunk_files) + 1])
    /\ UNCHANGED <<pc, runVars, rerun_results, batchState, callState, ocr_input,
                   chunk_size, chunks, ocr_output>>

\* Lines 144-164: the list is merged into the output, or merging raises;
\* either way the temporary chunk files are deleted
MergeChunks ==
    /\ pc = "chunks"
    /\ Len(chunk_files) = Len(chunks)
    /\ \E merge_ok \in BOOLEAN :
         IF merge_ok
         THEN pc' = "done" /\ ocr_output' = MergePdfs(chunk_files)
         ELSE pc' = "raised" /\ ocr_output' = ocr_output
    /\ chunks' = <<>>
    /\ chunk_files' = <<>>
    /\ UNCHANGED <<runVars, rerun_results, batchState, callState, ocr_input, chunk_size>>

NextOcr == ProcessPdf \/ ProcessSinglePdf \/ ProcessChunk \/ MergeChunks

SpecOcr == InitOcr /\ [][NextOcr]_vars


\* ------------------------------------------------- classifier: properties
\* analyze_images has returned (it did not raise as a whole)
Analysed == pc # "image_analysis" /\ "total_images" \in DOMAIN img_results

KeptRecords == Range(img_results.important_images) \cup Range(img_results.table_images)
AllRecords == KeptRecords \cup Range(img_results.decorative_images)

\* Image instance i went through _ocr_image and _classify_image
Classified(i) == images[i].fail \in {"none", "ocr_error"}

\* C1: an image whose OCR result has table structure, or at least
\* min_lines_for_table lines, is recorded with classification 'table' (in
\* table_images and in important_images) and never as decorative, whatever
\* its area and whatever area_threshold, keep_tables and remove_decorative.
C1_TableProtected ==
    Analysed =>
      \A i \in 1..Len(images) :
        LET ocr_result == OcrImage(images[i]) IN
        (Classified(i) /\ (ocr_result.has_table_structure
                           \/ ocr_result.line_count >= min_lines_for_table))
        => /\ \A r \in AllRecords : r.xref = i => r.classification = "table"
           /\ \E r \in Range(img_results.table_images) : r.xref = i
           /\ \E r \in Range(img_results.important_images) : r.xref = i
           /\ \A r \in Range(img_results.decorative_images) : r.xref # i

\* A table-structured image covering 3% of the page, below area_threshold,
\* with no line of text, is in table_images.
C1_Witness ==
    /\ Analysed
    /\ \E i \in 1..Len(images) :
         /\ images[i].fail = "none" /\ images[i].has_table_structure
         /\ images[i].area = 3 /\ images[i].ocr[1] = 0 /\ area_threshold = 15
         /\ \E r \in Range(img_results.table_images) :
              r.xref = i /\ r.classification = "table"

\* C2: the deletion candidates are records classified 'decorative' only; what
\* is overlaid comes from that list; no image that has a record classified
\* 'table' or 'important' (error records included) is a candidate or overlaid.
C2_OnlyDecorativeDeleted ==
    /\ \A r \in Range(img_results.decorative_images) : r.classification = "decorative"
    /\ \A r \in Range(overlaid) :
         r.classification = "decorative" /\ r \in Range(img_results.decorative_images)
    /\ \A k \in KeptRecords :
         /\ k.classification \in {"table", "important"}
         /\ \A r \in Range(img_results.decorative_images) \cup Range(overlaid) :
              r.xref # k.xref

\* A decorative image was overlaid while the record of an image whose
\* analysis raised was kept.
C2_Witness ==
    /\ pc = "done"
    /\ overlaid # <<>>
    /\ \E k \in KeptRecords : "reason" \in DOMAIN k

\* C3 (as claimed): an image whose analysis failed at any point has a record
\* classified 'important' with a reason and is not in decorative_images.
C3_FailureKeepsImage ==
    Analysed =>
      \A i \in 1..Len(images) :
        images[i].fail \in AnalysisFailures
        => /\ \E r \in Range(img_results.important_images) :
                r.xref = i /\ r.classification = "important" /\ "reason" \in DOMAIN r
           /\ \A r \in Range(img_results.decorative_images) : r.xref # i

\* The rules of the cascade as (condition, result) pairs, in order
RuleHolds(k, area_percentage, ocr_result) ==
    CASE k = 1 -> ocr_result.has_table_structure
      [] k = 2 -> ocr_result.line_count >= min_lines_for_table
      [] k = 3 -> ocr_result.line_count > 0 /\ ocr_result.text_len > 10
      [] k = 4 -> area_percentage > 20
      [] k = 5 -> area_percentage > 10
      [] k = 6 -> area_percentage < area_threshold /\ ocr_result.line_count = 0
      [] k = 7 -> TRUE

RuleResult(k) ==
    CASE k \in {1, 2} -> "table"
      [] k \in {3, 4, 5, 7} -> "important"
      [] k = 6 -> "decorative"

FirstRule(area_percentage, ocr_result) ==
    CHOOSE k \in 1..7 :
        /\ RuleHolds(k, area_percentage, ocr_result)
        /\ \A j \in 1..(k - 1) : ~RuleHolds(j, area_percentage, ocr_result)

\* C4: every classified image carries the result of the first rule of the
\* cascade that matches it; so a decorative one has no table structure, no
\* OCR line, an area below area_threshold and an area of at most 10%.
C4_FirstRuleWins ==
    Analysed =>
      \A i \in 1..Len(images) :
        Classified(i) =>
          LET ocr_result == OcrImage(images[i]) IN
          /\ \E r \in AllRecords : r.xref = i
          /\ \A r \in AllRecords :
               r.xref = i =>
                 /\ r.classification = RuleResult(FirstRule(images[i].area, ocr_result))
                 /\ r.classification = "decorative" =>
                      /\ ~ocr_result.has_table_structure
                      /\ ocr_result.line_count = 0
                      /\ images[i].area < area_threshold
                      /\ images[i].area <= 10

\* With area_threshold 15%: a textless image of 7% is decorative (rule 6)
\* and a textless image of 12% is important (rule 5 comes first).
C4_Witness ==
    /\ Analysed /\ area_threshold = 15 /\ Len(images) = 2
    /\ images[1] = [fail |-> "none", area |-> 12, ocr |-> <<0, 0>>,
                    has_table_structure |-> FALSE]
    /\ images[2] = [fail |-> "none", area |-> 7, ocr |-> <<0, 0>>,
                    has_table_structure |-> FALSE]
    /\ \E r \in Range(img_results.important_images) : r.xref = 1
    /\ \E r \in Range(img_results.decorative_images) : r.xref = 2

\* ------------------------------------ classifier: repeated analysis
ImageLists == {"table_images", "important_images", "decorative_images"}

\* Both calls of analyze_images have returned
AnalysedTwice ==
    /\ pc = "done"
    /\ "total_images" \in DOMAIN img_results
    /\ "total_images" \in DOMAIN rerun_results

Configured == Range(algorithms)
Sample == SamplePages(Len(document), sample_pages)

\* detect() has returned a result to the pipeline
Detected ==
    pc # "header_footer_detection"
    /\ report["header_footer_detection"] = "completed"

\* One of the orders list(set(...)) can give the bbox result at threshold t
SomeOrder(t) == CHOOSE o \in BboxOrders(document, Sample, t) : TRUE

\* What each configured algorithm returns on the sample at threshold t
ResultsAt(t) == RunAlgorithms(document, Sample, algorithms, t, SomeOrder(t))

Rank(name, list) == CHOOSE n \in 1..Len(list) : list[n] = name

SameScore(a, b) == ~ScoreLess(a, b) /\ ~ScoreLess(b, a)

\* The selected result is a configured algorithm's, no configured algorithm
\* scores higher, and among those that score the same it is the first of
\* `list`
SelectedIsFirstMaxOf(list) ==
    LET results == ResultsAt(threshold)
        used == hf_results.algorithm_used
    IN  /\ used \in Configured
        /\ \A n \in 1..Len(results) :
             /\ results[n].name = used =>
                  results[n].result.consistency_score = hf_results.consistency_score
             /\ ~ScoreLess(hf_results.consistency_score,
                           results[n].result.consistency_score)
             /\ (results[n].name # used
                 /\ SameScore(results[n].result.consistency_score,
                              hf_results.consistency_score))
                => Rank(used, list) < Rank(results[n].name, list)

\* C5 (as claimed): detect() returns the result with the largest score, and
\* of several with the largest score the one that comes first in the
\* configured `algorithms` list.
C5_TieByConfiguredOrder == Detected => SelectedIsFirstMaxOf(algorithms)

\* C5 (amended): detect() returns the result with the largest score, and of
\* several with the largest score the one that comes first in the fixed order
\* text_repetition, bbox_matching, fuzzy_matching, whatever the order of the
\* configured list.
C5_TieByFixedOrder == Detected => SelectedIsFirstMaxOf(AlgorithmOrder)

\* With algorithms = [fuzzy_matching, text_repetition] and the same positive
\* score for both, text_repetition is selected.
C5_Witness ==
    /\ Detected
    /\ algorithms = <<"fuzzy_matching", "text_repetition">>
    /\ hf_results.algorithm_used = "text_repetition"
    /\ hf_results.consistency_score.num > 0
    /\ \A n \in 1..Len(ResultsAt(threshold)) :
         SameScore(ResultsAt(threshold)[n].result.consistency_score,
                   hf_results.consistency_score)

\* C6 (as claimed): when exactly one configured algorithm throws and the
\* others complete, detect() returns the best result of the others.
C6_OneFailureExcluded ==
    (pc # "header_footer_detection"
     /\ Cardinality(Configured) >= 2
     /\ Cardinality(Configured \cap raising) = 1)
    => /\ report["header_footer_detection"] = "completed"
       /\ hf_results.algorithm_used \in Configured \ raising
       /\ \A n \in 1..Len(ResultsAt(threshold)) :
            ResultsAt(threshold)[n].name \notin raising
            => ~ScoreLess(hf_results.consistency_score,
                          ResultsAt(threshold)[n].result.consistency_score)

InUnitInterval(score) == 0 <= score.num /\ score.num <= score.den

\* C8 (as claimed): the consistency_score of every algorithm that ran, and
\* so the one detect() returns, lies in [0, 1].
C8_ScoreInUnitInterval ==
    Detected =>
      /\ InUnitInterval(hf_results.consistency_score)
      /\ \A n \in 1..Len(ResultsAt(threshold)) :
           InUnitInterval(ResultsAt(threshold)[n].result.consistency_score)

\* C9 (as claimed): no candidate of a sampling pass occurs more often than
\* there are sampled pages.
C9_OccurrenceBounded ==
    Detected =>
      LET total_sampled == Len(Sample)
          counters == TextRepetitionCounters(document, Sample, total_sampled)
          positions == BboxPositions(document, Sample, total_sampled)
          groups == FuzzyGroups(document, Sample, total_sampled)
      IN  /\ \A side \in {counters.header, counters.footer} :
                \A n \in 1..Len(side) : side[n].count <= total_sampled
          /\ \A side \in {positions.header, positions.footer} :
                \A n \in 1..Len(side) :
                    MostCommon(CounterOf(side[n].texts)).count <= total_sampled
          /\ \A side \in {groups.header, groups.footer} :
                \A n \in 1..Len(side) : Len(side[n].examples) <= total_sampled

\* The thresholds a sample is tried against
ThresholdGrid == {50, 85, 100}

\* C10: at a threshold above the configured one, every configured algorithm
\* returns no more headers and no more footers on the same sample than it
\* does at the configured one, and neither does detect().
C10_ThresholdMonotone ==
    Detected =>
      LET r1 == ResultsAt(threshold) IN
      \A t2 \in {t \in ThresholdGrid : t > threshold} :
        LET r2 == ResultsAt(t2)
            selected == BestAlgorithm(r2).result
        IN  /\ \A n \in 1..Len(r1) :
                 /\ Len(r2[n].result.headers) <= Len(r1[n].result.headers)
                 /\ Len(r2[n].result.footers) <= Len(r1[n].result.footers)
            /\ Len(selected.headers) <= Len(hf_results.headers)
            /\ Len(selected.footers) <= Len(hf_results.footers)

\* A header found on one page of two passes the threshold 50% and is lost
\* at 85%.
C10_Witness ==
    /\ Detected /\ threshold = 50
    /\ Len(hf_results.headers) = 1
    /\ Len(Detect(document, sample_pages, algorithms, 85, {},
                  SomeOrder(85)).result.headers) = 0

\* ------------------------------------------ detector: repeated detection
\* bbox_matching is configured and list(set(...)) has more than one order
\* to return its headers or footers in
OrderIsOpen ==
    /\ "bbox_matching" \in Configured
    /\ Cardinality(BboxOrders(document, Sample, threshold)) >= 2

DefaultDetection ==
    /\ threshold = 85
    /\ algorithms = AlgorithmOrder
    /\ Sample = SamplePages(Len(document), 50)

\* The sampled pages whose topmost block reads `text`, verbatim
PagesHeadedBy(text) ==
    {n \in 1..Len(Sample) :
        /\ document[Sample[n] + 1] # <<>>
        /\ Strip(SortByY(document[Sample[n] + 1])[1].text) = text}

\* A text of more than 3 characters that heads at least the threshold's
\* share of the sampled pages
RunningHead(text) ==
    /\ Len(text) > 3
    /\ Cardinality(PagesHeadedBy(text)) * 100 >= threshold * Len(Sample)

HeadTexts == {Strip(b.text) : b \in BlockKinds}

FooterBlocks(n) ==
    {k \in 1..Len(document[Sample[n] + 1]) :
        InFooterRegion(document[Sample[n] + 1][k].y0)}

\* Every sampled page has one block in its bottom 10%, and these blocks
\* differ in their page number only
NumberedFooters ==
    \A n \in 1..Len(Sample) :
      /\ Cardinality(FooterBlocks(n)) = 1
      /\ \A k \in FooterBlocks(n) :
           NormalizeDigits(Strip(document[Sample[n] + 1][k].text))
             = <<"P", "g", " ", "#">>

\* fuzzy_matching ran and scored higher than every other algorithm that ran
FuzzyScoresHighest ==
    /\ "fuzzy_matching" \in Configured
    /\ \A n \in 1..Len(ResultsAt(threshold)) :
         ResultsAt(threshold)[n].name # "fuzzy_matching"
         => ScoreLess(ResultsAt(threshold)[n].result.consistency_score,
                      AlgorithmFuzzyMatching(document, Sample,
                                             threshold).consistency_score)

\* C14: when every sampled page has in its bottom 10% one footer block that
\* differs from the others only in its page number, fuzzy_matching puts all
\* of them into one group with pattern 'Pg #' whose members are as many as
\* the sampled pages, and returns 'Pg #' as its only footer; detect()
\* returns that footer whenever the fuzzy score exceeds the scores of the
\* other algorithms.
C14_NumberedFooterPattern ==
    (Detected /\ NumberedFooters) =>
      /\ \A groups \in {FuzzyGroups(document, Sample, Len(Sample)).footer} :
           /\ Len(groups) = 1
           /\ groups[1].pattern = <<"P", "g", " ", "#">>
           /\ Len(groups[1].examples) = Len(Sample)
      /\ AlgorithmFuzzyMatching(document, Sample, threshold).footers
           = <<<<"P", "g", " ", "#">>>>
      /\ FuzzyScoresHighest =>
           /\ hf_results.algorithm_used = "fuzzy_matching"
           /\ hf_results.footers = <<<<"P", "g", " ", "#">>>>

\* Two sampled pages with the feet 'Pg 1' and 'Pg 2'; fuzzy_matching
\* scores highest and detect() returns 'Pg #'.
C14_Witness ==
    /\ Detected /\ NumberedFooters
    /\ Len(Sample) = 2
    /\ \E k \in 1..Len(document[1]) : document[1][k].text = TextPg1
    /\ \E k \in 1..Len(document[2]) : document[2][k].text = TextPg2
    /\ FuzzyScoresHighest
    /\ Cardinality(Configured) >= 2
    /\ hf_results.algorithm_used = "fuzzy_matching"
    /\ hf_results.footers = <<<<"P", "g", " ", "#">>>>

\* --------------------------------------------------- pipeline: properties
\* The positions of a run of process_pdf_file, in order
Positions ==
    <<"ocr", "header_footer_detection", "image_analysis", "preview",
      "final_cleaning", "remove_images", "text_extraction", "done">>

Position(at) == CHOOSE n \in 1..Len(Positions) : Positions[n] = at

\* The run has gone through the step
StepRan(st) ==
    CASE st = "final_cleaning" ->
            /\ Position(pc) > Position("final_cleaning")
            /\ IF preview_only
               THEN report[st] = "skipped"
               ELSE Position(pc) > Position("remove_images")
                    => report[st] \in {"completed", "partial"}
      [] st = "text_extraction" ->
            /\ pc = "done"
            /\ report[st] \in {"completed", "failed"}
               \/ (~generate_chunk_simulation /\ text_result.extracted)
      [] OTHER ->
            /\ Position(pc) > Position(st)
            /\ report[st] \in {"completed", "failed"}

\* Every configured detection algorithm throws, or none is configured
AllAlgorithmsFail == pc \notin {"ocr", "header_footer_detection"} /\ Configured \subseteq raising

RedactionCalled ==
    \/ pc = "remove_images"
    \/ temp_cleaned.exists \/ cleaned.exists
    \/ redacted # {} \/ overlaid # <<>>
    \/ hf_removed_count # -1 \/ removed_count # -1
    \/ report["final_cleaning"] \in {"completed", "partial"}

\* C15: the preview step has been attempted (completed or failed) before
\* any redaction call of the run; in preview mode, asked for by --preview
\* or by preview.preview_only of the configuration, neither
\* remove_headers_footers nor remove_decorative_images is ever called and
\* final_cleaning is reported 'skipped'.
C15_PreviewBeforeRedaction ==
    /\ RedactionCalled => report["preview"] \in {"completed", "failed"}
    /\ (args_preview \/ config_preview_only) =>
         /\ ~RedactionCalled
         /\ Position(pc) > Position("final_cleaning")
            => report["final_cleaning"] = "skipped"

\* The configuration alone asks for the preview: the run ends with the
\* preview written, the cleaning skipped and no file at the cleaned path.
C15_Witness ==
    /\ pc = "done"
    /\ config_preview_only /\ ~args_preview
    /\ report["preview"] = "completed"
    /\ report["final_cleaning"] = "skipped"
    /\ ~cleaned.exists
    /\ text_result.extracted

\* --------------------------------------- pipeline: errors in redaction
\* STEP 5 is over in a run that is not a preview
CleaningOver == ~preview_only /\ Position(pc) > Position("remove_images")

\* remove_headers_footers raised: it returned no count
HfRemovalRaised == CleaningOver /\ hf_removed_count = -1

\* remove_decorative_images raised: the cleaning is reported 'partial'
ImageRemovalRaised == CleaningOver /\ report["final_cleaning"] = "partial"

\* C16 (as claimed): outside preview mode, when remove_headers_footers or
\* remove_decorative_images raises, the run is not aborted, the image
\* removal has still run after a failed header/footer removal, a PDF exists
\* at the cleaned path once STEP 5 is over, and text extraction still runs.
C16_RedactionErrorKeepsCleanedPdf ==
    (HfRemovalRaised \/ ImageRemovalRaised) =>
      /\ report["final_cleaning"] \in {"completed", "partial"}
      /\ cleaned.exists
      /\ pc # "done" => ENABLED Next
      /\ pc = "done" => StepRan("text_extraction")

\* ------------------------------------------ pipeline: the final counts
\* C17 (as claimed): when the final cleaning is reported 'completed', its
\* headers_footers_removed is the count remove_headers_footers returned, the
\* number of text spans it covered, and its images_removed is the count
\* remove_decorative_images returned, the number of images it covered.
C17_CountsAreWhatWasOverlaid ==
    (CleaningOver /\ report["final_cleaning"] = "completed") =>
      /\ cleaning_counts.headers_footers_removed = hf_removed_count
      /\ hf_removed_count = Cardinality(redacted)
      /\ cleaning_counts.images_removed = removed_count
      /\ removed_count = Len(overlaid)

\* ----------------------------------------------------- batch: properties
FilePlace(f) == CHOOSE k \in 1..Len(pdf_files) : pdf_files[k] = f

\* The entries of the log that belong to the file at place k of the list
EntriesOf(k) == {n \in 1..Len(batch_log) : batch_log[n].file = pdf_files[k]}

\* The file at place k has left process_pdf_file, by return or by exception
Finished(k) ==
    \E n \in EntriesOf(k) : batch_log[n].at = "return" \/ batch_log[n].escaped

\* C18: in batch mode the files go through process_pdf_file one at a time
\* in list order, each from its set-up to its return or its exception before
\* the next begins; after an exception that leaves process_pdf_file the loop
\* goes on, every later file is processed and the combined report is written
\* with every file counted and the returned reports in list order.
C18_BatchSequentialAndRobust ==
    /\ \A i, j \in 1..Len(batch_log) :
         i < j =>
           /\ FilePlace(batch_log[i].file) <= FilePlace(batch_log[j].file)
           /\ batch_log[i].file = batch_log[j].file
              => /\ BatchPlace(batch_log[i].at) < BatchPlace(batch_log[j].at)
                 /\ ~batch_log[i].escaped
    /\ \A k \in 1..Len(pdf_files) :
         /\ EntriesOf(k) # {} =>
              /\ k <= file_index
              /\ \E n \in EntriesOf(k) : batch_log[n].at = "setup"
         /\ (k < file_index \/ (k = file_index /\ pc \in {"next_file", "done"}))
            => Finished(k)
    /\ pc # "done" => ENABLED NextBatch
    /\ pc = "done" =>
         /\ \A k \in 1..Len(pdf_files) : Finished(k)
         /\ combined_report.written
         /\ combined_report.total_files = Len(pdf_files)
         /\ combined_report.processed
              = Cardinality({k \in 1..Len(pdf_files) :
                               \E n \in EntriesOf(k) : batch_log[n].at = "return"})
         /\ \A i, j \in 1..Len(combined_report.files) :
              i < j => FilePlace(combined_report.files[i].file_name)
                         < FilePlace(combined_report.files[j].file_name)

\* The first of two files raised in its set-up; the second went through all
\* its steps and is the one report of the combined report.
C18_Witness ==
    /\ pc = "done"
    /\ Len(pdf_files) = 2
    /\ \E n \in EntriesOf(1) : batch_log[n].at = "setup" /\ batch_log[n].escaped
    /\ \E n \in EntriesOf(2) : batch_log[n].at = "return"
    /\ combined_report.written
    /\ combined_report.processed = 1
    /\ combined_report.files[1].file_name = pdf_files[2]

\* ------------------------------------------------------- OCR: properties
PageNumbers(pdf) == [n \in 1..Len(pdf) |-> pdf[n].page]

\* The file has more pages than chunk_size
Chunked == Len(ocr_input) > chunk_size

\* C19: for a PDF with more pages than chunk_size, the chunks hold at most
\* chunk_size pages each and, laid end to end, are the pages of the input,
\* each once and in order; they are processed one at a time in that order,
\* the k-th file of the merge list holding the pages of the k-th chunk
\* whether its OCR succeeded or failed; and the merged output has the pages
\* of the input in the same order.
C19_ChunkedOcrKeepsPages ==
    /\ pc = "chunks" =>
         /\ Chunked
         /\ \A k \in 1..Len(chunks) :
              Len(chunks[k]) >= 1 /\ Len(chunks[k]) <= chunk_size
         /\ PageNumbers(MergePdfs(chunks)) = PageNumbers(ocr_input)
         /\ Len(chunk_files) <= Len(chunks)
         /\ \A k \in 1..Len(chunk_files) :
              PageNumbers(chunk_files[k]) = PageNumbers(chunks[k])
    /\ (pc = "done" /\ Chunked) =>
         PageNumbers(ocr_output) = PageNumbers(ocr_input)

\* Four pages in chunks of three: the OCR of the first chunk succeeded,
\* that of the second failed and its one page went into the output as it
\* was.
C19_Witness ==
    /\ pc = "done"
    /\ Len(ocr_input) = 4 /\ chunk_size = 3
    /\ Len(ocr_output) = 4
    /\ ocr_output[1].ocr /\ ocr_output[3].ocr
    /\ ~ocr_output[4].ocr

\* --------------------------------------- pipeline: a step that failed
StepOrder ==
    <<"ocr", "header_footer_detection", "image_analysis", "preview",
      "final_cleaning", "text_extraction">>

StepPlace(st) == CHOOSE n \in 1..Len(StepOrder) : StepOrder[n] = st

\* The step has failed in this run: its report entry says 'failed', or, for
\* the redaction, 'partial' or the header/footer removal raised
StepFailed(st) ==
    \/ report[st] = "failed"
    \/ st = "final_cleaning" /\ (HfRemovalRaised \/ ImageRemovalRaised)

MaxTotalPages == 9
MaxSample == 4

Returned(value) == [state |-> "returned", value |-> value]
Raised(error) == [state |-> "raised", error |-> error]

\* detect(), lines 45-54: len(doc) and self.sample_pages
SamplingCalls ==
    {[fn |-> "sample_pages", total_pages |-> n, sample_pages |-> k] :
        n \in 1..MaxTotalPages, k \in 0..MaxSample}

SamplePagesCall ==
    /\ call.fn = "sample_pages"
    /\ returned = NotReturned
    /\ returned' = Returned(SamplePages(call.total_pages, call.sample_pages))
    /\ UNCHANGED <<pc, report, imgConfig, imgState, hfConfig, hfState, runConfig,
                   runState, rerun_results, batchState, ocrState, call>>

\* _algorithm_text_repetition(doc, sample_pages) with self.threshold, on
\* the sample detect() takes with sample_pages = 1 (the first and the last
\* page) of the documents that have no other page: a page outside the
\* sample is never read
TextRepetitionCalls ==
    {[fn |-> "text_repetition", doc |-> doc,
      sample |-> SamplePages(Len(doc), 1), threshold |-> thr] :
        doc \in {d \in Documents : Len(SamplePages(Len(d), 1)) = Len(d)},
        thr \in Thresholds}

TextRepetitionCall ==
    /\ call.fn = "text_repetition"
    /\ returned = NotReturned
    /\ returned' = Returned(AlgorithmTextRepetition(call.doc, call.sample,
                                                    call.threshold))
    /\ UNCHANGED <<pc, report, imgConfig, imgState, hfConfig, hfState, runConfig,
                   runState, rerun_results, batchState, ocrState, call>>

\* The spans of a PDF that remove_headers_footers reads: numbered page
\* feet, written with a blank, a dot or a parenthesis, and a paragraph
MaxSpans == 2
SpanKinds ==
    {[text |-> <<"P", "g", " ", "1">>],
     [text |-> <<"P", "g", " ", "1", "2">>],
     [text |-> <<"P", "g", ".", "1">>],
     [text |-> <<"P", "g", "(", "1">>],
     [text |-> <<"B", "o", "d", "y">>]}

\* The patterns detect() can have found in such PDFs
SpanPatterns ==
    {<<"P", "g", " ", "#">>, <<"P", "g", ".", "1">>, <<"P", "g", "(", "1">>,
     <<"B", "o", "d", "i">>}

RemoveCalls ==
    {[fn |-> "remove_headers_footers", doc |-> SplitPages(c[1], c[2]),
      headers |-> h, footers |-> f] :
        c \in {x \in SeqsUpTo(SpanKinds, MaxSpans) \X SeqsUpTo(0..MaxSpans, 2) :
                  Len(x[2]) >= 1 /\ Sum(x[2]) = Len(x[1])},
        h \in SeqsUpTo(SpanPatterns, 1), f \in SeqsUpTo(SpanPatterns, 1)}

\* Lines 337-346 on one span: re.fullmatch is reached with a pattern that
\* is no regular expression, no earlier pattern having matched
MatchRaises(text, patterns) ==
    \E n \in 1..Len(patterns) :
        /\ RegexError(patterns[n])
        /\ text # patterns[n]
        /\ \A m \in 1..(n - 1) : ~TextMatchesPattern(text, patterns[m])

\* remove_headers_footers: the places covered and their number, or the
\* re.error that leaves the function before doc.save
RemoveHeadersFootersCall ==
    /\ call.fn = "remove_headers_footers"
    /\ returned = NotReturned
    /\ returned' =
         IF \E p \in 1..Len(call.doc) : \E b \in 1..Len(call.doc[p]) :
               MatchRaises(Strip(call.doc[p][b].text), call.headers \o call.footers)
         THEN Raised("re.error")
         ELSE Returned(
                [overlaid |-> RemoveHeadersFooters(call.doc, call.headers, call.footers),
                 removed_count |->
                     Cardinality(RemoveHeadersFooters(call.doc, call.headers,
                                                      call.footers))])
    /\ UNCHANGED <<pc, report, imgConfig, imgState, hfConfig, hfState, runConfig,
                   runState, rerun_results, batchState, ocrState, call>>

\* ------------------------------------------------ _detect_table_structure
\* The entries of pytesseract's image_to_data: recognised words at three
\* heights (5 is quantized to row 0, 15 and 25 to row 20) and a blank entry
MaxOcrEntries == 6
OcrEntryKinds ==
    {[text |-> <<"a">>, top |-> 5],
     [text |-> <<"a">>, top |-> 15],
     [text |-> <<"a">>, top |-> 25],
     [text |-> <<" ">>, top |-> 5]}

\* Lines 207-219: one turn of the loop; rows as entries [text |-> row_key,
\* count |-> len(rows[row_key])]
AddToRows(rows, entry) ==
    IF Strip(entry.text) = <<>> THEN rows
    ELSE CounterAdd(rows, RoundToTolerance(entry.top))

RECURSIVE TableRows(_)
TableRows(ocr_data) ==
    IF ocr_data = <<>> THEN <<>>
    ELSE AddToRows(TableRows(SubSeq(ocr_data, 1, Len(ocr_data) - 1)),
                   ocr_data[Len(ocr_data)])

\* The check without the `len(rows) < 2` return
DetectTableStructureAnyRows(ocr_data) ==
    IF Len(ocr_data) < 6 THEN FALSE
    ELSE \E n \in 1..Len(TableRows(ocr_data)) : TableRows(ocr_data)[n].count >= 2

DetectTableStructure(ocr_data) ==
    IF Len(ocr_data) < 6 THEN FALSE
    ELSE IF Len(TableRows(ocr_data)) < 2 THEN FALSE
    ELSE \E n \in 1..Len(TableRows(ocr_data)) : TableRows(ocr_data)[n].count >= 2

TableStructureCalls ==
    {[fn |-> "detect_table_structure", ocr_data |-> data] :
        data \in SeqsUpTo(OcrEntryKinds, MaxOcrEntries)}

DetectTableStructureCall ==
    /\ call.fn = "detect_table_structure"
    /\ returned = NotReturned
    /\ returned' = Returned(DetectTableStructure(call.ocr_data))
    /\ UNCHANGED <<pc, report, imgConfig, imgState, hfConfig, hfState, runConfig,
                   runState, rerun_results, batchState, ocrState, call>>

\* ------------------------------------------------------------- detect()
\* A document whose running head changes with the chapter and whose feet are
\* numbered: every head at one position, every foot at another
MaxHeadedBlocks == 4
HeadedBlockKinds ==
    {[x0 |-> 0, y0 |-> 4, text |-> <<"C", "h", " ", "1", "\n">>],
     [x0 |-> 0, y0 |-> 4, text |-> <<"C", "h", " ", "2", "\n">>],
     [x0 |-> 0, y0 |-> 95, text |-> TextPg1],
     [x0 |-> 0, y0 |-> 95, text |-> TextPg2]}

\* detect() on two-page documents with the default algorithms and
\* sample_pages = 50
DetectCalls ==
    {[fn |-> "detect", doc |-> SplitPages(c[1], c[2]), sample_pages |-> 50,
      algorithms |-> AlgorithmOrder, threshold |-> thr] :
        c \in {x \in SeqsUpTo(HeadedBlockKinds, MaxHeadedBlocks)
                       \X [1..2 -> 0..MaxHeadedBlocks] :
                  Sum(x[2]) = Len(x[1])},
        thr \in Thresholds}

DetectCall ==
    /\ call.fn = "detect"
    /\ returned = NotReturned
    /\ \E order \in BboxOrders(call.doc,
                               SamplePages(Len(call.doc), call.sample_pages),
                               call.threshold) :
          returned' = Returned(Detect(call.doc, call.sample_pages, call.algorithms,
                                      call.threshold, {}, order).result)
    /\ UNCHANGED <<pc, report, imgConfig, imgState, hfConfig, hfState, runConfig,
                   runState, rerun_results, batchState, ocrState, call>>

\* ------------------------------------------------------ process_pdf_file
\* A path is a directory, as its components, and a file name, as the words
\* of its stem followed by its suffix
FilePath(dir, name) == [dir |-> dir, name |-> name]

\* Path(pdf_path).stem, and f"{base_name}<tail>" in a directory
Stem(name) == SubSeq(name, 1, Len(name) - 1)
Beside(dir, base_name, tail, suffix) == FilePath(dir, base_name \o <<tail, suffix>>)

OutputDir == <<"output">>
ReportDir == <<"report">>

\* versions, lines 109-118: save_as_copies writes the raw copy
Versions(pdf_path, base_name, create_backups) ==
    [raw |-> IF create_backups THEN Beside(OutputDir, base_name, "_raw", ".pdf")
             ELSE pdf_path,
     ocr |-> Beside(OutputDir, base_name, "_ocr", ".pdf"),
     cleaned |-> Beside(OutputDir, base_name, "_cleaned", ".pdf")]

\* The chunk_<i>_input.pdf and chunk_<i>_ocr.pdf of n chunks
ChunkPaths(temp_dir, n) ==
    {FilePath(temp_dir, <<"chunk_", <<"0", "1", "2">>[i], kind, ".pdf">>) :
        i \in 1..n, kind \in {"_input", "_ocr"}}

\* OCRProcessor.process_pdf: the files it writes and the files it deletes.
\* The cleanup of the chunked run unlinks every file of temp_dir, the chunks
\* and whatever else lies there.
OcrFiles(input_pdf, output_pdf, total_pages, size, ocr_ok) ==
    IF total_pages <= size
    THEN [written |-> IF ocr_ok THEN {output_pdf} ELSE {}, deleted |-> {}]
    ELSE [written |->
              ChunkPaths(Append(output_pdf.dir, "temp_chunks"),
                         (total_pages + size - 1) \div size)
              \cup (IF ocr_ok THEN {output_pdf} ELSE {}),
          deleted |->
              ChunkPaths(Append(output_pdf.dir, "temp_chunks"),
                         (total_pages + size - 1) \div size)
              \cup {f \in {input_pdf} : f.dir = Append(output_pdf.dir, "temp_chunks")}]

\* The files the steps of process_pdf_file write and delete
PipelineFiles(pdf_path, base_name, versions, ocr, preview) ==
    [written |->
         ({versions.raw} \ {pdf_path})
         \cup ocr.written
         \cup {Beside(ReportDir, base_name, "_preview", ".json")}
         \cup (IF preview THEN {}
               ELSE {Beside(OutputDir, base_name, "_temp_cleaned", ".pdf"),
                     versions.cleaned})
         \cup {Beside(OutputDir, base_name, "_cleaned", ".txt"),
               Beside(OutputDir, base_name, "_chunk_simulation", ".txt")},
     deleted |->
         ocr.deleted
         \cup (IF preview THEN {}
               ELSE {Beside(OutputDir, base_name, "_temp_cleaned", ".pdf")})]

\* The PDFs the tool can be pointed at: a new file, files of an earlier
\* run, a chunk left behind; in the input, output or chunk directory
MaxInputPages == 3
InputPaths ==
    {FilePath(dir, name) :
        dir \in {<<"input">>, OutputDir, Append(OutputDir, "temp_chunks")},
        name \in {<<"x", ".pdf">>, <<"x", "_raw", ".pdf">>, <<"x", "_ocr", ".pdf">>,
                  <<"x", "_cleaned", ".pdf">>,
                  <<"chunk_", "0", "_input", ".pdf">>}}

FileCalls ==
    [fn : {"process_pdf_file"}, pdf_path : InputPaths, create_backups : BOOLEAN,
     preview_only : BOOLEAN, total_pages : 1..MaxInputPages, chunk_size : {2}]

ProcessPdfFileCall ==
    /\ call.fn = "process_pdf_file"
    /\ returned = NotReturned
    /\ \E ocr_ok \in BOOLEAN :
       \E versions \in {Versions(call.pdf_path, Stem(call.pdf_path.name),
                                 call.create_backups)} :
          returned' =
              Returned(PipelineFiles(call.pdf_path, Stem(call.pdf_path.name),
                                     versions,
                                     OcrFiles(call.pdf_path, versions.ocr,
                                              call.total_pages, call.chunk_size,
                                              ocr_ok),
                                     call.preview_only))
    /\ UNCHANGED <<pc, report, imgConfig, imgState, hfConfig, hfState, runConfig,
                   runState, rerun_results, batchState, ocrState, call>>

\* ------------------------------------------------- _format_image_preview
\* dict.get(key, default) of a results dict
Get(dict, key, default) == IF key \in DOMAIN dict THEN dict[key] ELSE default

FormatImagePreview(image_results) ==
    IF DOMAIN image_results = {}
    THEN [status |-> "not_analyzed"]
    ELSE [total_images |-> Get(image_results, "total_images", 0),
          classification_summary |->
              [decorative |-> Len(Get(image_results, "decorative_images", <<>>)),
               tables |-> Len(Get(image_results, "table_images", <<>>)),
               important |-> Len(Get(image_results, "important_images", <<>>))],
          images_to_remove |-> Len(Get(image_results, "decorative_images", <<>>)),
          images_to_keep |-> Len(Get(image_results, "important_images", <<>>))
                               + Len(Get(image_results, "table_images", <<>>))]

\* The results of analyze_images, with the default thresholds, on PDFs of
\* small images
PreviewCalls ==
    {[fn |-> "format_image_preview", image_results |-> AnalyzeImages(imgs, 5, 3)] :
        imgs \in SeqsUpTo({img \in ImageInputs : img.area = 3}, MaxImages)}

FormatImagePreviewCall ==
    /\ call.fn = "format_image_preview"
    /\ returned = NotReturned
    /\ returned' = Returned(FormatImagePreview(call.image_results))
    /\ UNCHANGED <<pc, report, imgConfig, imgState, hfConfig, hfState, runConfig,
                   runState, rerun_results, batchState, ocrState, call>>

\* ---------------------------------------------- generate_chunk_simulation
\* The length of the word a text starts with
RECURSIVE WordLen(_)
WordLen(text) ==
    IF text = <<>> \/ Head(text) \in Whitespace THEN 0
    ELSE 1 + WordLen(Tail(text))

\* str.split(): the maximal runs without whitespace
RECURSIVE SplitWords(_)
SplitWords(text) ==
    IF text = <<>> THEN <<>>
    ELSE IF Head(text) \in Whitespace THEN SplitWords(Tail(text))
    ELSE <<SubSeq(text, 1, WordLen(text))>>
         \o SplitWords(SubSeq(text, WordLen(text) + 1, Len(text)))

\* ' '.join(words)
RECURSIVE JoinWords(_)
JoinWords(words) ==
    IF words = <<>> THEN <<>>
    ELSE IF Len(words) = 1 THEN words[1]
    ELSE words[1] \o <<" ">> \o JoinWords(Tail(words))

\* Lines 216-226: one turn of the loop
AddWord(st, word, size) ==
    IF st.current_size + Len(word) + 1 > size /\ st.current_chunk # <<>>
    THEN [chunks |-> Append(st.chunks, JoinWords(st.current_chunk)),
          current_chunk |-> <<word>>,
          current_size |-> Len(word) + 1]
    ELSE [chunks |-> st.chunks,
          current_chunk |-> Append(st.current_chunk, word),
          current_size |-> st.current_size + Len(word) + 1]

RECURSIVE ChunkLoop(_, _)
ChunkLoop(words, size) ==
    IF words = <<>>
    THEN [chunks |-> <<>>, current_chunk |-> <<>>, current_size |-> 0]
    ELSE AddWord(ChunkLoop(SubSeq(words, 1, Len(words) - 1), size),
                 words[Len(words)], size)

\* Lines 228-230: the last chunk
LastChunkAdded(st) ==
    IF st.current_chunk # <<>>
    THEN Append(st.chunks, JoinWords(st.current_chunk))
    ELSE st.chunks

\* Lines 232-234: the log line divides by len(chunks), then the return
LoggedAndReturned(chunk_list) ==
    IF Len(chunk_list) = 0 THEN Raised("ZeroDivisionError")
    ELSE Returned(chunk_list)

GenerateChunkSimulation(text, size) ==
    LoggedAndReturned(LastChunkAdded(ChunkLoop(SplitWords(text), size)))

\* Texts of up to MaxTextLen characters: letters, blanks and line ends
MaxTextLen == 5
ChunkCalls ==
    {[fn |-> "generate_chunk_simulation", text |-> text, chunk_size |-> size] :
        text \in SeqsUpTo({"a", " ", "\n"}, MaxTextLen), size \in 1..4}

GenerateChunkSimulationCall ==
    /\ call.fn = "generate_chunk_simulation"
    /\ returned = NotReturned
    /\ returned' = GenerateChunkSimulation(call.text, call.chunk_size)
    /\ UNCHANGED <<pc, report, imgConfig, imgState, hfConfig, hfState, runConfig,
                   runState, rerun_results, batchState, ocrState, call>>

Calls ==
    SamplingCalls \cup TextRepetitionCalls \cup RemoveCalls
    \cup TableStructureCalls \cup DetectCalls \cup FileCalls
    \cup PreviewCalls \cup ChunkCalls

InitCalls ==
    /\ pc = "call"
    /\ report = NoReport
    /\ ImgIdle
    /\ HfIdle
    /\ RunIdle
    /\ rerun_results = FailedImageResults
    /\ BatchIdle
    /\ OcrIdle
    /\ call \in Calls
    /\ returned = NotReturned

NextCalls ==
    \/ SamplePagesCall
    \/ TextRepetitionCall
    \/ RemoveHeadersFootersCall
    \/ DetectTableStructureCall
    \/ DetectCall
    \/ ProcessPdfFileCall
    \/ FormatImagePreviewCall
    \/ GenerateChunkSimulationCall

SpecCalls == InitCalls /\ [][NextCalls]_vars

Called(fn) == call.fn = fn /\ returned # NotReturned

\* C21: for a document of N pages and sample_pages = K, detect() samples the
\* first min(K, N) pages together with the last min(K, N) pages, each page
\* once and in ascending order: min(2K, N) pages, and all pages when N <= 2K.
C21_FirstAndLastPagesSampled ==
    Called("sample_pages") =>
      LET N == call.total_pages
          K == call.sample_pages
          sampled == returned.value
      IN  /\ Range(sampled) = (0..(Min(K, N) - 1)) \cup ((N - Min(K, N))..(N - 1))
          /\ \A i \in 1..(Len(sampled) - 1) : sampled[i] < sampled[i + 1]
          /\ Len(sampled) = Min(2 * K, N)
          /\ N <= 2 * K => Range(sampled) = 0..(N - 1)

\* Seven pages and sample_pages = 2: pages 0, 1, 5, 6 and none between.
C21_Witness ==
    /\ Called("sample_pages")
    /\ call.total_pages = 7
    /\ call.sample_pages = 2
    /\ returned.value = <<0, 1, 5, 6>>

\* The trimmed texts of the two blocks of a page with the smallest (top) or
\* the largest vertical offset
EdgeTexts(blocks, top) ==
    [j \in 1..Min(2, Len(blocks)) |->
        Strip((IF top THEN FirstTwo(SortByY(blocks))
                      ELSE LastTwo(SortByY(blocks)))[j].text)]

\* How many of these blocks of the sampled pages read t
Occurrences(doc, sample, top, t) ==
    Sum([i \in 1..Len(sample) |->
            Cardinality({j \in 1..Min(2, Len(doc[sample[i] + 1])) :
                            EdgeTexts(doc[sample[i] + 1], top)[j] = t})])

\* The candidate texts longer than `over` whose occurrences / sampled pages
\* reach the threshold
Repeated(doc, sample, top, thr, over) ==
    {t \in UNION {Range(EdgeTexts(doc[sample[i] + 1], top)) : i \in 1..Len(sample)} :
        /\ Len(t) > over
        /\ Occurrences(doc, sample, top, t) * 100 >= thr * Len(sample)}

\* C22 (as stated): the headers (footers) of the text-repetition algorithm
\* are exactly the texts of the 2 topmost (2 lowest) blocks of the sampled
\* pages whose occurrence count / number of sampled pages >= threshold.
C22_EveryRepeatedCandidate ==
    Called("text_repetition") =>
      /\ Range(returned.value.headers)
           = Repeated(call.doc, call.sample, TRUE, call.threshold, 0)
      /\ Range(returned.value.footers)
           = Repeated(call.doc, call.sample, FALSE, call.threshold, 0)

\* C22 (amended): the same of the candidate texts that are longer than 3
\* characters after trimming, each listed once.
C22_RepeatedCandidatesOver3 ==
    Called("text_repetition") =>
      /\ Range(returned.value.headers)
           = Repeated(call.doc, call.sample, TRUE, call.threshold, 3)
      /\ Range(returned.value.footers)
           = Repeated(call.doc, call.sample, FALSE, call.threshold, 3)
      /\ Len(returned.value.headers) = Cardinality(Range(returned.value.headers))
      /\ Len(returned.value.footers) = Cardinality(Range(returned.value.footers))

\* One page reading 'Head', 'Rep', 'Body': 'Head' is the header found and
\* 'Body' the footer, the 3-letter 'Rep' is a candidate of both and in none.
C22_Witness ==
    /\ Called("text_repetition")
    /\ Len(call.doc) = 1
    /\ [j \in 1..Len(call.doc[1]) |-> call.doc[1][j].text]
         = <<TextHead, TextRep, TextBody>>
    /\ call.sample = <<0>>
    /\ returned.value.headers = <<TextHead>>
    /\ returned.value.footers = <<Strip(TextBody)>>

\* The text is the pattern with every '#' replaced by one or more digits
RECURSIVE WildcardMatch(_, _)
WildcardMatch(pattern, text) ==
    IF pattern = <<>> THEN text = <<>>
    ELSE IF Head(pattern) = "#"
    THEN \E k \in 1..Len(text) :
            /\ \A i \in 1..k : text[i] \in Digits
            /\ WildcardMatch(Tail(pattern), SubSeq(text, k + 1, Len(text)))
    ELSE /\ text # <<>>
         /\ Head(text) = Head(pattern)
         /\ WildcardMatch(Tail(pattern), Tail(text))

\* C23: remove_headers_footers checks every span of every page and returns;
\* it overlays a span if and only if, for some header or footer pattern,
\* the span's trimmed text equals the pattern, or is the pattern with every
\* wildcard replaced by one or more digits, or is >= 0.90 similar to it;
\* the returned count is the number of spans overlaid.
C23_OverlaidIffMatching ==
    Called("remove_headers_footers") =>
      /\ returned.state = "returned"
      /\ \A p \in 1..Len(call.doc) : \A b \in 1..Len(call.doc[p]) :
           <<p, b>> \in returned.value.overlaid
             <=> \E pattern \in Range(call.headers \o call.footers) :
                    \/ Strip(call.doc[p][b].text) = pattern
                    \/ WildcardMatch(pattern, Strip(call.doc[p][b].text))
                    \/ SimilarAtLeast(Strip(call.doc[p][b].text), pattern, 90)
      /\ returned.value.removed_count = Cardinality(returned.value.overlaid)

\* The non-blank OCR entries and the row-bands they fall into
Tokens(ocr_data) == {i \in 1..Len(ocr_data) : Strip(ocr_data[i].text) # <<>>}
RowBands(ocr_data) == {RoundToTolerance(ocr_data[i].top) : i \in Tokens(ocr_data)}
InBands(ocr_data) ==
    /\ Cardinality(RowBands(ocr_data)) >= 2
    /\ \E band \in RowBands(ocr_data) :
          Cardinality({i \in Tokens(ocr_data) :
                          RoundToTolerance(ocr_data[i].top) = band}) >= 2

\* C24 (as stated): has_table_structure is true exactly when the non-blank
\* OCR tokens fall into at least 2 row-bands of which one holds at least 2
\* tokens, whatever the number of OCR entries.
C24_TableStructureIffBands ==
    Called("detect_table_structure") =>
      (returned.value <=> InBands(call.ocr_data))

\* C24 (amended): true exactly when the OCR data has at least 6 entries,
\* blank ones included, and the non-blank tokens fall into at least 2
\* row-bands of which one holds at least 2 tokens.
C24_TableStructureIffSixEntriesInBands ==
    Called("detect_table_structure") =>
      (returned.value <=> (Len(call.ocr_data) >= 6 /\ InBands(call.ocr_data)))

\* Six entries, one of them blank, the five tokens in two bands: a table.
C24_Witness ==
    /\ Called("detect_table_structure")
    /\ Len(call.ocr_data) = 6
    /\ Cardinality(Tokens(call.ocr_data)) = 5
    /\ Cardinality(RowBands(call.ocr_data)) = 2
    /\ returned.value = TRUE

\* The records of image instance i in a list of the analysis result
RecordsOf(list, i) == {n \in 1..Len(list) : list[n].xref = i}

\* C25: every image instance counted in total_images is in exactly one of
\* decorative_images and important_images (an image whose analysis raised
\* is in important_images), so total_images is the sum of the two lengths,
\* and every record of table_images is in important_images.
C25_CountedImagesPartitioned ==
    Analysed =>
      /\ img_results.total_images = Len(images)
      /\ \A i \in 1..Len(images) :
           /\ Cardinality(RecordsOf(img_results.decorative_images, i))
                + Cardinality(RecordsOf(img_results.important_images, i)) = 1
           /\ images[i].fail \in {"rects_error", "extract_error"}
                => RecordsOf(img_results.important_images, i) # {}
      /\ img_results.total_images
           = Len(img_results.decorative_images) + Len(img_results.important_images)
      /\ Range(img_results.table_images) \subseteq Range(img_results.important_images)

\* C26: outside preview mode, whenever the final cleaning is reported
\* 'completed', a PDF exists at the cleaned path and carries the overlays
\* remove_headers_footers produced, whatever images.remove_decorative is.
C26_CompletedMeansCleanedPdf ==
    (CleaningOver /\ report["final_cleaning"] = "completed") =>
      /\ cleaned.exists
      /\ cleaned.covered = redacted

\* C27: whenever the consistency_score of the algorithm detect() selected is
\* >= detection_threshold, the returned result holds at least one header or
\* footer pattern.
C27_PassingScoreHasPattern ==
    Called("detect") =>
      (returned.value.consistency_score.num * 100
           >= call.threshold * returned.value.consistency_score.den
         => returned.value.headers # <<>> \/ returned.value.footers # <<>>)

\* C28: through every path of process_pdf_file the input PDF is only read:
\* no file the pipeline writes, copies to or deletes has the input's path.
C28_InputOnlyRead ==
    Called("process_pdf_file") =>
      call.pdf_path \notin returned.value.written \cup returned.value.deleted

\* The lists of an analysis result that hold a record of image instance i
ListsHolding(image_results, i) ==
    {list \in {"decorative_images", "table_images", "important_images"} :
        \E n \in 1..Len(image_results[list]) : image_results[list][n].xref = i}

\* C29: in the preview built from an image analysis result,
\* images_to_remove + images_to_keep = total_images, and the counts
\* 'decorative', 'tables' and 'important' of the classification_summary,
\* the lengths of the three lists, count each image at most once.
C29_PreviewCountsAddUp ==
    Called("format_image_preview") =>
      /\ returned.value.images_to_remove + returned.value.images_to_keep
           = returned.value.total_images
      /\ \A i \in 1..call.image_results.total_images :
           Cardinality(ListsHolding(call.image_results, i)) <= 1
      /\ returned.value.classification_summary.decorative
           + returned.value.classification_summary.tables
           + returned.value.classification_summary.important
           <= returned.value.total_images

\* The words of a sequence of chunks, in order
RECURSIVE WordsOf(_)
WordsOf(chunk_list) ==
    IF chunk_list = <<>> THEN <<>>
    ELSE SplitWords(Head(chunk_list)) \o WordsOf(Tail(chunk_list))

\* C30: generate_chunk_simulation returns for every text, empty or blank
\* ones included, and every chunk_size >= 1; the words of the chunks, in
\* order, are the whitespace-separated words of the text, and a chunk of
\* more than one word is at most chunk_size characters long.
C30_ChunksReturnedForEveryText ==
    Called("generate_chunk_simulation") =>
      /\ returned.state = "returned"
      /\ WordsOf(returned.value) = SplitWords(call.text)
      /\ \A n \in 1..Len(returned.value) :
           Len(SplitWords(returned.value[n])) > 1
             => Len(returned.value[n]) <= call.chunk_size




====
